---- MODULE Spec2Model ----
(***************************************************************************)
(* Context-free graph reachability (vano105/cfra): the CF-matrix           *)
(* representation, the lazy matrix set, the base / incremental /           *)
(* fully-optimized closure engines and the strategy selector.              *)
(*                                                                         *)
(* A sparse boolean matrix is the set of its TRUE coordinates <<i, j>>.    *)
(* A CF-matrix representation (std::map<std::string, cuBool_Matrix>) is a  *)
(* function whose DOMAIN is the set of keys present in the map.            *)
(***************************************************************************)
EXTENDS Integers, Sequences, FiniteSets, TLC

VARIABLES
  grammar,      \* cnf_grammar: start_nonterm_, epsilon_rules_, simple_rules_, complex_rules_
  edges,        \* the lines <<v, to, label>> of the graph file
  versionIdx,   \* benchmark_all: index of the engine version being run
  pc,           \* position inside solve: "start", "loop", "return", "done"
  M,            \* CFMatrixRepresentation M of the running solve
  delta,        \* CFMatrixRepresentation delta (the front) of the running solve
  iterations,   \* stats.iterations / iteration of the running solve
  converged,    \* TRUE once the running solve left its loop through the convergence exit
  warned,       \* TRUE once the running solve printed "WARNING: Too many iterations"
  prevM,        \* M as it was before the last loop iteration (history)
  results,      \* results returned so far, by engine version
  cfThis,       \* CFMatrixRepresentation: the receiver of the operation under test
  cfOther,      \* CFMatrixRepresentation: its argument
  cfResult,     \* CFMatrixRepresentation: what the operation returned
  cfPc,         \* "input", or the operation that produced cfResult
  lmsB,         \* LazyMatrixSet::b_factor (as the fraction of its square)
  lmsOrdered,   \* which maintain_invariant the set runs: FALSE min/max, TRUE ordered pair
  lmsSet,       \* LazyMatrixSet: matrices and nvals_cache
  lmsAdded,     \* union of every matrix handed to add so far (history)
  lmsCount,     \* number of add calls so far (history)
  lmsOut,       \* the matrix the last materialize returned
  lmsPc,        \* "new", "added" or "materialized": the last operation on the set
  selN,         \* graph.matrix_size handed to the automatic selection
  selRules,     \* grammar.complex_rules_.size() handed to it
  selChosen,    \* what choose_algo_type / solve_auto selected
  selPc,        \* "input", "choose_algo_type" or "solve_auto"
  callNo,       \* which call of solve on the same grammar, graph and version runs
  firstResult,  \* the matrix the first of the two calls returned
  stepKind,     \* which two runs of the closure loop are set side by side
  stepA,        \* the first run: its M, delta and last delta_tmp
  stepB,        \* the second run, on the same grammar and graph
  stepOrder,    \* the order in which the second run applied rules and products
  stepPass,     \* passes of the loop made so far by the two runs
  stepPc,       \* "start" or "loop"
  fsGrammar,    \* the grammar file at grammar_path: whether it exists, and its rules
  fsGraph,      \* the graph file at graph_path: whether it exists, and its edge lines
  stderrLog,    \* what the loaders wrote to std::cerr
  exTemplate,   \* the lines of the file at template_grammar_path
  exGraph,      \* the labels of the lines of the file at graph_path
  exIndices,    \* std::set<int> indices of expand_grammar_template
  exRules,      \* its epsilon_rules, simple_rules, complex_rules and start_symbol
  exOutput,     \* the lines written to the file at output_grammar_path
  exPc,         \* position inside expand_grammar_template
  clsEngine,    \* the engine class whose classify_rules runs
  clsBuckets,   \* its cnf_rules, extended_left_rules, extended_right_rules, double_terminal_rules
  clsPc,        \* "new", or "classified" once classify_rules returned
  changedBy,    \* which test assigns "changed" in the loop of matrix_base_algo_fixed::solve
  sizeBefore,   \* matrices.size() when the running add was entered (history)
  merges,       \* merges made so far by the running maintain_invariant (history)
  skipped_multiplications, \* AlgoStats::skipped_multiplications of the running solve
  ownHow,       \* "objects": engine built from a grammar and a graph; "paths": from two file paths
  ownPc,        \* where the lifetime of the engine stands, from construction to teardown
  live,         \* the handles cuBool_Matrix_New / _Duplicate gave out and _Free has not taken back
  pairsAt,      \* what the matrix at each handle ever given out holds (stale once freed)
  loadedGraph,  \* matrices of the label_decomposed_graph built from graph_path
  algoGraph,    \* matrices of the member "graph" of the engine
  graphBefore,  \* what the handles of the member "graph" led to when solve was entered (history)
  mStartAt,     \* the handle in the slot M[start] when solve returned, 0 if there was none (history)
  resultAt,     \* the handle solve returned, 0 before that
  doubleFree,   \* TRUE once cuBool_Matrix_Free was called on a handle that was not live (history)
  readFreed     \* TRUE once a matrix operation read a handle that was not live (history)

solveVars == <<grammar, edges, versionIdx, pc, M, delta, iterations, converged,
               warned, prevM, results>>

cfVars == <<cfThis, cfOther, cfResult, cfPc>>

lmsVars == <<lmsB, lmsOrdered, lmsSet, lmsAdded, lmsCount, lmsOut, lmsPc>>

selVars == <<selN, selRules, selChosen, selPc>>

twiceVars == <<callNo, firstResult>>

stepVars == <<stepKind, stepA, stepB, stepOrder, stepPass, stepPc>>

loadVars == <<fsGrammar, fsGraph, stderrLog>>

expandVars == <<exTemplate, exGraph, exIndices, exRules, exOutput, exPc>>

classifyVars == <<clsEngine, clsBuckets, clsPc>>

quiesceVars == <<changedBy>>

mergeVars == <<sizeBefore, merges>>

statsVars == <<skipped_multiplications>>

ownVars == <<ownHow, ownPc, live, pairsAt, loadedGraph, algoGraph, graphBefore, mStartAt, resultAt, doubleFree, readFreed>>

vars == <<solveVars, cfVars, lmsVars, selVars, twiceVars, stepVars, loadVars, expandVars,
         classifyVars,
         quiesceVars,
         mergeVars,
         statsVars,
         ownVars>>

nonOwnVars == <<cfVars, lmsVars, selVars, twiceVars, stepVars, loadVars, expandVars, classifyVars, quiesceVars, mergeVars, statsVars>>
nonStatsVars == <<cfVars, lmsVars, selVars, twiceVars, stepVars, loadVars, expandVars, classifyVars, quiesceVars, mergeVars, ownVars>>
nonMergeVars == <<solveVars, cfVars, selVars, twiceVars, stepVars, loadVars, expandVars, classifyVars, quiesceVars, statsVars, ownVars>>
nonClassifyVars == <<solveVars, cfVars, lmsVars, selVars, twiceVars, stepVars, loadVars, expandVars, quiesceVars, mergeVars, statsVars, ownVars>>
nonSolveVars == <<cfVars, lmsVars, selVars, twiceVars, stepVars, loadVars, expandVars, classifyVars, quiesceVars, mergeVars, statsVars, ownVars>>
nonCFVars == <<solveVars, lmsVars, selVars, twiceVars, stepVars, loadVars, expandVars, classifyVars, quiesceVars, mergeVars, statsVars, ownVars>>
nonLmsVars == <<solveVars, cfVars, selVars, twiceVars, stepVars, loadVars, expandVars, classifyVars, quiesceVars, mergeVars, statsVars, ownVars>>
nonSelVars == <<solveVars, cfVars, lmsVars, twiceVars, stepVars, loadVars, expandVars, classifyVars, quiesceVars, mergeVars, statsVars, ownVars>>
nonExpandVars == <<solveVars, cfVars, lmsVars, selVars, twiceVars, stepVars, loadVars, classifyVars, quiesceVars, mergeVars, statsVars, ownVars>>
nonStepVars == <<solveVars, cfVars, lmsVars, selVars, twiceVars, loadVars, expandVars, classifyVars, quiesceVars, mergeVars, statsVars, ownVars>>

-----------------------------------------------------------------------------
(* Bounds of the explored inputs *)

MaxEdges == 2
MaxRules == 2
MaxNvals == 2
MaxAdds == 3
MaxPasses == 4
MaxLines == 2
MaxLabels == 2

(* Program constants *)

IterationCap == 100

-----------------------------------------------------------------------------
(* Sparse boolean matrices *)

EmptyMatrix == {}

Nvals(A) == Cardinality(A)

EWiseAdd(A, B) == A \cup B

MxM(A, B) == UNION {{<<p[1], q[2]>> : q \in {r \in B : r[1] = p[2]}} : p \in A}

Identity(n) == {<<i, i>> : i \in 0..(n - 1)}

-----------------------------------------------------------------------------
(* CFMatrixRepresentation *)

EmptyCF == [k \in {} |-> EmptyMatrix]

get_or_create(cf, k) ==
  IF k \in DOMAIN cf THEN cf
  ELSE [x \in (DOMAIN cf) \cup {k} |-> IF x = k THEN EmptyMatrix ELSE cf[x]]

has(cf, k) == k \in DOMAIN cf /\ Nvals(cf[k]) > 0

\* stores the product in place of what the slot held
OrIntoOverwrite(cf, k, P) == [get_or_create(cf, k) EXCEPT ![k] = P]

\* result.get_or_create(X); EWiseAdd(temp, result_x, product); result_x = temp
OrInto(cf, k, P) == [get_or_create(cf, k) EXCEPT ![k] = EWiseAdd(@, P)]

\* assigns other's matrix instead of adding it
union_with_overwrite(this, other) ==
  [k \in (DOMAIN this) \cup (DOMAIN other) |->
     IF k \in DOMAIN other THEN other[k] ELSE this[k]]

union_with(this, other) ==
  [k \in (DOMAIN this) \cup (DOMAIN other) |->
     IF k \in DOMAIN other
       THEN EWiseAdd(get_or_create(this, k)[k], other[k])
       ELSE this[k]]

\* The loop over the pairs of this[label] pushes every pair back unconditionally.
difference(this, other) ==
  LET kept == {k \in DOMAIN this : has(other, k) => Nvals(this[k]) > 0}
  IN  [k \in kept |-> this[k]]

is_empty_cf(cf) == \A k \in DOMAIN cf : Nvals(cf[k]) = 0

\* counts the labels that hold a pair instead of the pairs
NontermsWithPairs(cf) == Cardinality({k \in DOMAIN cf : Nvals(cf[k]) > 0})

TotalNvals(cf) ==
  LET RECURSIVE Sum(_)
      Sum(ks) == IF ks = {} THEN 0
                 ELSE LET k == CHOOSE x \in ks : TRUE
                      IN  Nvals(cf[k]) + Sum(ks \ {k})
  IN  Sum(DOMAIN cf)

\* compares the maps key by key, empty slots included
equals_by_key(this, other) ==
  /\ DOMAIN this = DOMAIN other
  /\ \A k \in DOMAIN this : this[k] = other[k]

equals(this, other) ==
  LET this_labels  == {k \in DOMAIN this : Nvals(this[k]) > 0}
      other_labels == {k \in DOMAIN other : Nvals(other[k]) > 0}
  IN  /\ this_labels = other_labels
      /\ \A k \in this_labels :
           /\ Nvals(this[k]) = Nvals(other[k])
           /\ this[k] = other[k]

-----------------------------------------------------------------------------
(* label_decomposed_graph, as the loader builds it from the edge lines *)

Max2(x, y) == IF x >= y THEN x ELSE y

matrix_size_of(es) ==
  LET RECURSIVE Largest(_)
      Largest(s) == IF s = {} THEN 0
                    ELSE LET e == CHOOSE x \in s : TRUE
                         IN  Max2(Max2(e[1], e[2]), Largest(s \ {e}))
  IN  Largest(es) + 1

\* keeps a matrix for the labels a and b even when no edge carries them
graph_matrices_with_empty(es) ==
  [l \in {e[3] : e \in es} \cup {"a", "b"} |->
     {<<e[1], e[2]>> : e \in {x \in es : x[3] = l}}]

graph_matrices(es) ==
  [l \in {e[3] : e \in es} |-> {<<e[1], e[2]>> : e \in {x \in es : x[3] = l}}]

-----------------------------------------------------------------------------
(* classify_rules *)

nonterminals(g) ==
  {g.start_nonterm_}
    \cup {g.complex_rules_[i][1] : i \in DOMAIN g.complex_rules_}
    \cup {g.simple_rules_[i][1] : i \in DOMAIN g.simple_rules_}
    \cup {g.epsilon_rules_[i] : i \in DOMAIN g.epsilon_rules_}

Bucket(g, rule) ==
  LET Y_is_nonterminal == rule[2] \in nonterminals(g)
      Z_is_nonterminal == rule[3] \in nonterminals(g)
  IN  IF Y_is_nonterminal /\ Z_is_nonterminal THEN "cnf"
      ELSE IF Y_is_nonterminal /\ ~Z_is_nonterminal THEN "extended_left"
      ELSE IF ~Y_is_nonterminal /\ Z_is_nonterminal THEN "extended_right"
      ELSE "double_terminal"

cnf_rules(g) == SelectSeq(g.complex_rules_, LAMBDA r : Bucket(g, r) = "cnf")
extended_left_rules(g) == SelectSeq(g.complex_rules_, LAMBDA r : Bucket(g, r) = "extended_left")
extended_right_rules(g) == SelectSeq(g.complex_rules_, LAMBDA r : Bucket(g, r) = "extended_right")
double_terminal_rules(g) == SelectSeq(g.complex_rules_, LAMBDA r : Bucket(g, r) = "double_terminal")

-----------------------------------------------------------------------------
(* Engine versions of CFReachabilityAlgoFactory and their OptimizationConfig *)

Versions == <<"BASE", "INCREMENTAL", "TRIVIAL_OPT", "LAZY_ADD", "FULLY_OPTIMIZED">>

ConfigOf(type) ==
  CASE type = "INCREMENTAL"     -> [use_trivial_checks |-> FALSE, use_lazy_add |-> FALSE]
    [] type = "TRIVIAL_OPT"     -> [use_trivial_checks |-> TRUE,  use_lazy_add |-> FALSE]
    [] type = "LAZY_ADD"        -> [use_trivial_checks |-> TRUE,  use_lazy_add |-> TRUE]
    [] type = "FULLY_OPTIMIZED" -> [use_trivial_checks |-> TRUE,  use_lazy_add |-> TRUE]
    [] OTHER                    -> [use_trivial_checks |-> FALSE, use_lazy_add |-> FALSE]

EngineOf(type) ==
  CASE type = "BASE" -> "matrix_base_algo_fixed"
    [] type \in {"INCREMENTAL", "TRIVIAL_OPT"} -> "IncrementalMatrixAlgo"
    [] OTHER -> "FullyOptimizedAlgo"

algo == Versions[versionIdx]
config == ConfigOf(algo)
graph == graph_matrices(edges)
matrix_size == matrix_size_of(edges)

\* takes a matrix with a single entry for an empty one
is_empty_or_single(cfg, matrix) ==
  IF ~cfg.use_trivial_checks THEN FALSE ELSE Nvals(matrix) <= 1

is_empty(cfg, matrix) ==
  IF ~cfg.use_trivial_checks THEN FALSE ELSE Nvals(matrix) = 0

\* if (nvals > 0) { result[X] = result[X] | product }
AddProduct(res, X, product) ==
  IF Nvals(product) > 0 THEN OrInto(res, X, product) ELSE res

-----------------------------------------------------------------------------
(* IncrementalMatrixAlgo *)

MultiplyInto(cfg, res, X, A, B) ==
  IF cfg.use_trivial_checks /\ (is_empty(cfg, A) \/ is_empty(cfg, B))
    THEN res
    ELSE AddProduct(res, X, MxM(A, B))

CnfStep(cfg, Mx, d, res, rule) ==
  LET X == rule[1]
      Y == rule[2]
      Z == rule[3]
      r1 == IF has(d, Y) /\ has(d, Z) THEN MultiplyInto(cfg, res, X, d[Y], d[Z]) ELSE res
      r2 == IF has(Mx, Y) /\ has(d, Z) THEN MultiplyInto(cfg, r1, X, Mx[Y], d[Z]) ELSE r1
      r3 == IF has(d, Y) /\ has(Mx, Z) THEN MultiplyInto(cfg, r2, X, d[Y], Mx[Z]) ELSE r2
  IN  r3

\* the operands of both products in the other order
ExtendedLeftStepSwapped(cfg, G, Mx, d, res, rule) ==
  LET X == rule[1]
      Y == rule[2]
      Z == rule[3]
      r1 == IF has(d, Y) THEN AddProduct(res, X, MxM(G[Z], d[Y])) ELSE res
  IN  IF Z \notin DOMAIN G THEN res
      ELSE IF has(d, Y) /\ cfg.use_trivial_checks /\ is_empty(cfg, d[Y]) THEN res
      ELSE IF ~has(Mx, Y) THEN r1
      ELSE IF cfg.use_trivial_checks /\ is_empty(cfg, Mx[Y]) THEN r1
      ELSE AddProduct(r1, X, MxM(G[Z], Mx[Y]))

ExtendedLeftStep(cfg, G, Mx, d, res, rule) ==
  LET X == rule[1]
      Y == rule[2]
      Z == rule[3]
      r1 == IF has(d, Y) THEN AddProduct(res, X, MxM(d[Y], G[Z])) ELSE res
  IN  IF Z \notin DOMAIN G THEN res
      ELSE IF has(d, Y) /\ cfg.use_trivial_checks /\ is_empty(cfg, d[Y]) THEN res
      ELSE IF ~has(Mx, Y) THEN r1
      ELSE IF cfg.use_trivial_checks /\ is_empty(cfg, Mx[Y]) THEN r1
      ELSE AddProduct(r1, X, MxM(Mx[Y], G[Z]))

\* the operands of both products in the other order
ExtendedRightStepSwapped(cfg, G, Mx, d, res, rule) ==
  LET X == rule[1]
      Y == rule[2]
      Z == rule[3]
      r1 == IF has(d, Z) THEN AddProduct(res, X, MxM(d[Z], G[Y])) ELSE res
  IN  IF Y \notin DOMAIN G THEN res
      ELSE IF has(d, Z) /\ cfg.use_trivial_checks /\ is_empty(cfg, d[Z]) THEN res
      ELSE IF ~has(Mx, Z) THEN r1
      ELSE IF cfg.use_trivial_checks /\ is_empty(cfg, Mx[Z]) THEN r1
      ELSE AddProduct(r1, X, MxM(Mx[Z], G[Y]))

ExtendedRightStep(cfg, G, Mx, d, res, rule) ==
  LET X == rule[1]
      Y == rule[2]
      Z == rule[3]
      r1 == IF has(d, Z) THEN AddProduct(res, X, MxM(G[Y], d[Z])) ELSE res
  IN  IF Y \notin DOMAIN G THEN res
      ELSE IF has(d, Z) /\ cfg.use_trivial_checks /\ is_empty(cfg, d[Z]) THEN res
      ELSE IF ~has(Mx, Z) THEN r1
      ELSE IF cfg.use_trivial_checks /\ is_empty(cfg, Mx[Z]) THEN r1
      ELSE AddProduct(r1, X, MxM(G[Y], Mx[Z]))

SimpleStep(d, res, rule) ==
  IF has(d, rule[2]) THEN OrInto(res, rule[1], d[rule[2]]) ELSE res

DoubleTerminalStep(cfg, G, res, rule) ==
  LET X == rule[1]
      Y == rule[2]
      Z == rule[3]
  IN  IF Y \notin DOMAIN G \/ Z \notin DOMAIN G THEN res
      ELSE MultiplyInto(cfg, res, X, G[Y], G[Z])

RECURSIVE apply_cnf_rules_incremental(_, _, _, _, _)
apply_cnf_rules_incremental(cfg, rules, Mx, d, res) ==
  IF rules = <<>> THEN res
  ELSE apply_cnf_rules_incremental(cfg, Tail(rules), Mx, d,
                                   CnfStep(cfg, Mx, d, res, Head(rules)))

RECURSIVE apply_extended_left_incremental(_, _, _, _, _, _)
apply_extended_left_incremental(cfg, rules, G, Mx, d, res) ==
  IF rules = <<>> THEN res
  ELSE apply_extended_left_incremental(cfg, Tail(rules), G, Mx, d,
                                       ExtendedLeftStep(cfg, G, Mx, d, res, Head(rules)))

RECURSIVE apply_extended_right_incremental(_, _, _, _, _, _)
apply_extended_right_incremental(cfg, rules, G, Mx, d, res) ==
  IF rules = <<>> THEN res
  ELSE apply_extended_right_incremental(cfg, Tail(rules), G, Mx, d,
                                        ExtendedRightStep(cfg, G, Mx, d, res, Head(rules)))

RECURSIVE apply_simple_rules_incremental(_, _, _)
apply_simple_rules_incremental(rules, d, res) ==
  IF rules = <<>> THEN res
  ELSE apply_simple_rules_incremental(Tail(rules), d, SimpleStep(d, res, Head(rules)))

RECURSIVE apply_double_terminal(_, _, _, _)
apply_double_terminal(cfg, rules, G, d) ==
  IF rules = <<>> THEN d
  ELSE apply_double_terminal(cfg, Tail(rules), G,
                             DoubleTerminalStep(cfg, G, d, Head(rules)))

\* "Простые правила": delta[lhs] |= graph[rhs] when the label is in the graph
RECURSIVE InitSimple(_, _, _)
InitSimple(rules, G, d) ==
  IF rules = <<>> THEN d
  ELSE LET lhs == Head(rules)[1]
           rhs == Head(rules)[2]
       IN  InitSimple(Tail(rules), G,
                      IF rhs \in DOMAIN G /\ Nvals(G[rhs]) > 0
                        THEN OrInto(d, lhs, G[rhs]) ELSE d)

\* "Эпсилон-правила": delta[A] |= identity
RECURSIVE InitEpsilon(_, _, _)
InitEpsilon(rules, n, d) ==
  IF rules = <<>> THEN d
  ELSE InitEpsilon(Tail(rules), n, OrInto(d, Head(rules), Identity(n)))

IncrementalInitDelta(cfg, g, G, n) ==
  apply_double_terminal(cfg, double_terminal_rules(g), G,
                        InitEpsilon(g.epsilon_rules_, n,
                                    InitSimple(g.simple_rules_, G, EmptyCF)))

IncrementalDeltaTmp(cfg, g, G, Mx, d) ==
  apply_simple_rules_incremental(g.simple_rules_, d,
    apply_extended_right_incremental(cfg, extended_right_rules(g), G, Mx, d,
      apply_extended_left_incremental(cfg, extended_left_rules(g), G, Mx, d,
        apply_cnf_rules_incremental(cfg, cnf_rules(g), Mx, d, EmptyCF))))

\* delta.matrices.clear(); delta.matrices[label] = dup(diff[label])
IncrementalNextDelta(cfg, g, G, Mx, d) ==
  difference(IncrementalDeltaTmp(cfg, g, G, Mx, d), union_with(Mx, d))

-----------------------------------------------------------------------------
(* IncrementalMatrixAlgo as the second copy of the class has it: the three  *)
(* CNF cases form an if / else-if chain, the M products of the extended     *)
(* rules are taken only when delta holds nothing for the nonterminal, and   *)
(* solve initialises delta from the epsilon rules first.                    *)

VariantCnfStep(cfg, Mx, d, res, rule) ==
  LET X == rule[1]
      Y == rule[2]
      Z == rule[3]
  IN  IF has(d, Y) /\ has(d, Z) THEN MultiplyInto(cfg, res, X, d[Y], d[Z])
      ELSE IF has(Mx, Y) /\ has(d, Z) THEN MultiplyInto(cfg, res, X, Mx[Y], d[Z])
      ELSE IF has(d, Y) /\ has(Mx, Z) THEN MultiplyInto(cfg, res, X, d[Y], Mx[Z])
      ELSE res

VariantExtendedLeftStep(cfg, G, Mx, d, res, rule) ==
  LET X == rule[1]
      Y == rule[2]
      Z == rule[3]
  IN  IF Z \notin DOMAIN G THEN res
      ELSE IF cfg.use_trivial_checks /\ Nvals(G[Z]) = 0 THEN res
      ELSE IF has(d, Y) THEN AddProduct(res, X, MxM(d[Y], G[Z]))
      ELSE IF has(Mx, Y) THEN AddProduct(res, X, MxM(Mx[Y], G[Z]))
      ELSE res

VariantExtendedRightStep(cfg, G, Mx, d, res, rule) ==
  LET X == rule[1]
      Y == rule[2]
      Z == rule[3]
  IN  IF Y \notin DOMAIN G THEN res
      ELSE IF cfg.use_trivial_checks /\ Nvals(G[Y]) = 0 THEN res
      ELSE IF has(d, Z) THEN AddProduct(res, X, MxM(G[Y], d[Z]))
      ELSE IF has(Mx, Z) THEN AddProduct(res, X, MxM(G[Y], Mx[Z]))
      ELSE res

RECURSIVE VariantApplyCnf(_, _, _, _, _)
VariantApplyCnf(cfg, rules, Mx, d, res) ==
  IF rules = <<>> THEN res
  ELSE VariantApplyCnf(cfg, Tail(rules), Mx, d, VariantCnfStep(cfg, Mx, d, res, Head(rules)))

RECURSIVE VariantApplyExtendedLeft(_, _, _, _, _, _)
VariantApplyExtendedLeft(cfg, rules, G, Mx, d, res) ==
  IF rules = <<>> THEN res
  ELSE VariantApplyExtendedLeft(cfg, Tail(rules), G, Mx, d,
                                VariantExtendedLeftStep(cfg, G, Mx, d, res, Head(rules)))

RECURSIVE VariantApplyExtendedRight(_, _, _, _, _, _)
VariantApplyExtendedRight(cfg, rules, G, Mx, d, res) ==
  IF rules = <<>> THEN res
  ELSE VariantApplyExtendedRight(cfg, Tail(rules), G, Mx, d,
                                 VariantExtendedRightStep(cfg, G, Mx, d, res, Head(rules)))

\* "Случай 1": delta[lhs] |= graph[rhs]; "Случай 2": delta[lhs] |= delta[rhs]
RECURSIVE VariantInitSimple(_, _, _)
VariantInitSimple(rules, G, d) ==
  IF rules = <<>> THEN d
  ELSE LET lhs == Head(rules)[1]
           rhs == Head(rules)[2]
           d1 == IF rhs \in DOMAIN G /\ Nvals(G[rhs]) > 0 THEN OrInto(d, lhs, G[rhs]) ELSE d
           d2 == IF has(d1, rhs) THEN OrInto(d1, lhs, d1[rhs]) ELSE d1
       IN  VariantInitSimple(Tail(rules), G, d2)

VariantInitDelta(cfg, g, G, n) ==
  apply_double_terminal(cfg, double_terminal_rules(g), G,
                        VariantInitSimple(g.simple_rules_, G,
                                          InitEpsilon(g.epsilon_rules_, n, EmptyCF)))

VariantDeltaTmp(cfg, g, G, Mx, d) ==
  apply_simple_rules_incremental(g.simple_rules_, d,
    VariantApplyExtendedRight(cfg, extended_right_rules(g), G, Mx, d,
      VariantApplyExtendedLeft(cfg, extended_left_rules(g), G, Mx, d,
        VariantApplyCnf(cfg, cnf_rules(g), Mx, d, EmptyCF))))

VariantNextDelta(cfg, g, G, Mx, d) ==
  difference(VariantDeltaTmp(cfg, g, G, Mx, d), union_with(Mx, d))

-----------------------------------------------------------------------------
(* LazyMatrixSet: matrices and nvals_cache are parallel vectors.            *)
(* b_factor is kept as the fraction num/den of its square, so that          *)
(* b = sqrt(n) is exact: b * s >= l  iff  num * s * s >= den * l * l.       *)

EmptyLMS == [matrices |-> <<>>, nvals_cache |-> <<>>]

SqrtFactor(n) == [num |-> n, den |-> 1]

Min2(x, y) == IF x <= y THEN x ELSE y

\* b_factor * smaller >= larger
FactorTimesAtLeast(b, smaller, larger) ==
  b.num * smaller * smaller >= b.den * larger * larger

RemoveAt(s, i) == SubSeq(s, 1, i - 1) \o SubSeq(s, i + 1, Len(s))

\* the pair the two nested for-loops reach first
FirstPair(V) ==
  CHOOSE p \in V : \A q \in V : p[1] < q[1] \/ (p[1] = q[1] /\ p[2] <= q[2])

\* erases both members and pushes nothing back
MergePairDropping(lms, i, j) ==
  [matrices    |-> RemoveAt(RemoveAt(lms.matrices, j), i),
   nvals_cache |-> RemoveAt(RemoveAt(lms.nvals_cache, j), i)]

\* erase j, erase i, push_back(merged)
MergePair(lms, i, j) ==
  LET merged == EWiseAdd(lms.matrices[i], lms.matrices[j])
  IN  [matrices    |-> Append(RemoveAt(RemoveAt(lms.matrices, j), i), merged),
       nvals_cache |-> Append(RemoveAt(RemoveAt(lms.nvals_cache, j), i), Nvals(merged))]

\* maintain_invariant of the first version: a pair violates when
\* smaller > 0 and b * smaller >= larger
ViolatingPairs(lms, b) ==
  {p \in (DOMAIN lms.matrices) \X (DOMAIN lms.matrices) :
     /\ p[1] < p[2]
     /\ Min2(lms.nvals_cache[p[1]], lms.nvals_cache[p[2]]) > 0
     /\ FactorTimesAtLeast(b, Min2(lms.nvals_cache[p[1]], lms.nvals_cache[p[2]]),
                              Max2(lms.nvals_cache[p[1]], lms.nvals_cache[p[2]]))}

\* maintain_invariant of the second version: for i < j in vector order,
\* a pair violates when !(b * nvals[i] < nvals[j])
OrderedViolatingPairs(lms, b) ==
  {p \in (DOMAIN lms.matrices) \X (DOMAIN lms.matrices) :
     /\ p[1] < p[2]
     /\ FactorTimesAtLeast(b, lms.nvals_cache[p[1]], lms.nvals_cache[p[2]])}

\* std::sort of the pairs (nvals, matrix): ascending nvals
RECURSIVE InsertSorted(_, _, _)
InsertSorted(lms, m, n) ==
  IF lms.matrices = <<>> \/ n < Head(lms.nvals_cache)
    THEN [matrices |-> <<m>> \o lms.matrices, nvals_cache |-> <<n>> \o lms.nvals_cache]
    ELSE LET rest == InsertSorted([matrices |-> Tail(lms.matrices),
                                   nvals_cache |-> Tail(lms.nvals_cache)], m, n)
         IN  [matrices    |-> <<Head(lms.matrices)>> \o rest.matrices,
              nvals_cache |-> <<Head(lms.nvals_cache)>> \o rest.nvals_cache]

\* leaves the members in the order the merges left them
keep_vector_order(lms) == lms

RECURSIVE sort_by_nvals(_)
sort_by_nvals(lms) ==
  IF lms.matrices = <<>> THEN lms
  ELSE LET k == Len(lms.matrices)
       IN  InsertSorted(sort_by_nvals([matrices    |-> SubSeq(lms.matrices, 1, k - 1),
                                       nvals_cache |-> SubSeq(lms.nvals_cache, 1, k - 1)]),
                        lms.matrices[k], lms.nvals_cache[k])

\* merges the first violating pair and stops
MergeOnce(lms, b, ordered) ==
  LET V == IF ordered THEN OrderedViolatingPairs(lms, b) ELSE ViolatingPairs(lms, b)
  IN  IF V = {} THEN lms
      ELSE MergePair(lms, FirstPair(V)[1], FirstPair(V)[2])

RECURSIVE MergeLoop(_, _, _)
MergeLoop(lms, b, ordered) ==
  LET V == IF ordered THEN OrderedViolatingPairs(lms, b) ELSE ViolatingPairs(lms, b)
  IN  IF V = {} THEN lms
      ELSE MergeLoop(MergePair(lms, FirstPair(V)[1], FirstPair(V)[2]), b, ordered)

maintain_invariant(lms, b, ordered) ==
  IF Len(lms.matrices) <= 1 THEN lms
  ELSE sort_by_nvals(MergeLoop(lms, b, ordered))

lms_add(lms, b, ordered, new_matrix) ==
  IF Nvals(new_matrix) = 0 THEN lms
  ELSE maintain_invariant([matrices    |-> Append(lms.matrices, new_matrix),
                           nvals_cache |-> Append(lms.nvals_cache, Nvals(new_matrix))],
                          b, ordered)

RECURSIVE FoldOr(_, _)
FoldOr(result, rest) ==
  IF rest = <<>> THEN result ELSE FoldOr(EWiseAdd(result, Head(rest)), Tail(rest))

\* returns the last (largest) member alone
materialize_last(lms) ==
  IF lms.matrices = <<>> THEN EmptyMatrix
  ELSE lms.matrices[Len(lms.matrices)]

materialize(lms) ==
  IF lms.matrices = <<>> THEN EmptyMatrix
  ELSE IF Len(lms.matrices) = 1 THEN lms.matrices[1]
  ELSE FoldOr(lms.matrices[1], Tail(lms.matrices))

-----------------------------------------------------------------------------
(* LazyCFMatrixRepresentation: label -> LazyMatrixSet *)

lazy_add(lazy, b, label, matrix) ==
  LET cur == IF label \in DOMAIN lazy THEN lazy[label] ELSE EmptyLMS
  IN  [k \in (DOMAIN lazy) \cup {label} |->
         IF k = label THEN lms_add(cur, b, FALSE, matrix) ELSE lazy[k]]

lazy_materialize(lazy, label) ==
  IF label \notin DOMAIN lazy THEN EmptyMatrix ELSE materialize(lazy[label])

\* takes the first member of every set for the whole set
to_normal_first(lazy) ==
  [k \in {l \in DOMAIN lazy : lazy[l].matrices # <<>>} |-> lazy[k].matrices[1]]

to_normal(lazy) ==
  [k \in {l \in DOMAIN lazy : lazy[l].matrices # <<>>} |-> materialize(lazy[k])]

-----------------------------------------------------------------------------
(* FullyOptimizedAlgo *)

b_factor_of(n) == SqrtFactor(n)

multiply_and_add_lazy(cfg, b, A, B, result_label, lazy_result) ==
  IF is_empty(cfg, A) \/ is_empty(cfg, B) THEN lazy_result
  ELSE LET product == MxM(A, B)
       IN  IF Nvals(product) = 0 THEN lazy_result
           ELSE IF cfg.use_lazy_add
             THEN lazy_add(lazy_result, b, result_label, product)
             ELSE lazy_add(lazy_result, b, result_label,
                           EWiseAdd(lazy_materialize(lazy_result, result_label), product))

CnfStepLazy(cfg, b, Mx, d, lz, rule) ==
  LET X == rule[1]
      Y == rule[2]
      Z == rule[3]
      r1 == IF has(d, Y) /\ has(d, Z)
              THEN multiply_and_add_lazy(cfg, b, d[Y], d[Z], X, lz) ELSE lz
      r2 == IF has(Mx, Y) /\ has(d, Z)
              THEN multiply_and_add_lazy(cfg, b, Mx[Y], d[Z], X, r1) ELSE r1
      r3 == IF has(d, Y) /\ has(Mx, Z)
              THEN multiply_and_add_lazy(cfg, b, d[Y], Mx[Z], X, r2) ELSE r2
  IN  r3

ExtendedLeftStepLazy(cfg, b, G, Mx, d, lz, rule) ==
  LET X == rule[1]
      Y == rule[2]
      Z == rule[3]
      r1 == IF has(d, Y) THEN multiply_and_add_lazy(cfg, b, d[Y], G[Z], X, lz) ELSE lz
  IN  IF Z \notin DOMAIN G THEN lz
      ELSE IF has(Mx, Y) THEN multiply_and_add_lazy(cfg, b, Mx[Y], G[Z], X, r1)
      ELSE r1

ExtendedRightStepLazy(cfg, b, G, Mx, d, lz, rule) ==
  LET X == rule[1]
      Y == rule[2]
      Z == rule[3]
      r1 == IF has(d, Z) THEN multiply_and_add_lazy(cfg, b, G[Y], d[Z], X, lz) ELSE lz
  IN  IF Y \notin DOMAIN G THEN lz
      ELSE IF has(Mx, Z) THEN multiply_and_add_lazy(cfg, b, G[Y], Mx[Z], X, r1)
      ELSE r1

SimpleStepLazy(b, d, lz, rule) ==
  IF has(d, rule[2]) THEN lazy_add(lz, b, rule[1], d[rule[2]]) ELSE lz

DoubleTerminalStepLazy(cfg, b, G, lz, rule) ==
  IF rule[2] \notin DOMAIN G \/ rule[3] \notin DOMAIN G THEN lz
  ELSE multiply_and_add_lazy(cfg, b, G[rule[2]], G[rule[3]], rule[1], lz)

RECURSIVE apply_cnf_incremental_lazy(_, _, _, _, _, _)
apply_cnf_incremental_lazy(cfg, b, rules, Mx, d, lz) ==
  IF rules = <<>> THEN lz
  ELSE apply_cnf_incremental_lazy(cfg, b, Tail(rules), Mx, d,
                                  CnfStepLazy(cfg, b, Mx, d, lz, Head(rules)))

RECURSIVE apply_extended_left_incremental_lazy(_, _, _, _, _, _, _)
apply_extended_left_incremental_lazy(cfg, b, rules, G, Mx, d, lz) ==
  IF rules = <<>> THEN lz
  ELSE apply_extended_left_incremental_lazy(cfg, b, Tail(rules), G, Mx, d,
         ExtendedLeftStepLazy(cfg, b, G, Mx, d, lz, Head(rules)))

RECURSIVE apply_extended_right_incremental_lazy(_, _, _, _, _, _, _)
apply_extended_right_incremental_lazy(cfg, b, rules, G, Mx, d, lz) ==
  IF rules = <<>> THEN lz
  ELSE apply_extended_right_incremental_lazy(cfg, b, Tail(rules), G, Mx, d,
         ExtendedRightStepLazy(cfg, b, G, Mx, d, lz, Head(rules)))

RECURSIVE apply_simple_rules_incremental_lazy(_, _, _, _)
apply_simple_rules_incremental_lazy(b, rules, d, lz) ==
  IF rules = <<>> THEN lz
  ELSE apply_simple_rules_incremental_lazy(b, Tail(rules), d,
                                           SimpleStepLazy(b, d, lz, Head(rules)))

RECURSIVE apply_double_terminal_lazy(_, _, _, _, _)
apply_double_terminal_lazy(cfg, b, rules, G, lz) ==
  IF rules = <<>> THEN lz
  ELSE apply_double_terminal_lazy(cfg, b, Tail(rules), G,
                                  DoubleTerminalStepLazy(cfg, b, G, lz, Head(rules)))

\* for (label : lazy_init.labels()) delta[label] |= lazy_init.materialize(label)
MaterializeInto(lazy, d) ==
  [k \in (DOMAIN d) \cup (DOMAIN lazy) |->
     IF k \in DOMAIN lazy
       THEN EWiseAdd(get_or_create(d, k)[k], lazy_materialize(lazy, k))
       ELSE d[k]]

\* the branch of solve taken without lazy addition
RECURSIVE DoubleTerminalEager(_, _, _, _)
DoubleTerminalEager(cfg, rules, G, d) ==
  IF rules = <<>> THEN d
  ELSE LET X == Head(rules)[1]
           Y == Head(rules)[2]
           Z == Head(rules)[3]
       IN  DoubleTerminalEager(cfg, Tail(rules), G,
             IF Y \notin DOMAIN G \/ Z \notin DOMAIN G THEN d
             ELSE IF ~is_empty(cfg, G[Y]) /\ ~is_empty(cfg, G[Z])
               THEN OrInto(d, X, MxM(G[Y], G[Z]))
               ELSE d)

FullInitDelta(cfg, g, G, n) ==
  LET d0 == InitEpsilon(g.epsilon_rules_, n, InitSimple(g.simple_rules_, G, EmptyCF))
  IN  IF cfg.use_lazy_add
        THEN MaterializeInto(
               apply_double_terminal_lazy(cfg, b_factor_of(n), double_terminal_rules(g),
                                          G, EmptyCF), d0)
        ELSE DoubleTerminalEager(cfg, double_terminal_rules(g), G, d0)

FullLazyDeltaTmp(cfg, g, G, n, Mx, d) ==
  LET b == b_factor_of(n)
  IN  apply_simple_rules_incremental_lazy(b, g.simple_rules_, d,
        apply_extended_right_incremental_lazy(cfg, b, extended_right_rules(g), G, Mx, d,
          apply_extended_left_incremental_lazy(cfg, b, extended_left_rules(g), G, Mx, d,
            apply_cnf_incremental_lazy(cfg, b, cnf_rules(g), Mx, d, EmptyCF))))

FullNextDelta(cfg, g, G, n, Mx, d) ==
  difference(to_normal(FullLazyDeltaTmp(cfg, g, G, n, Mx, d)), union_with(Mx, d))

-----------------------------------------------------------------------------
(* matrix_base_algo_fixed *)

BaseCnfStep(Mx, res, rule) ==
  IF ~has(Mx, rule[2]) \/ ~has(Mx, rule[3]) THEN res
  ELSE AddProduct(res, rule[1], MxM(Mx[rule[2]], Mx[rule[3]]))

BaseExtendedLeftStep(G, Mx, res, rule) ==
  IF ~has(Mx, rule[2]) THEN res
  ELSE IF rule[3] \notin DOMAIN G THEN res
  ELSE IF Nvals(G[rule[3]]) = 0 THEN res
  ELSE AddProduct(res, rule[1], MxM(Mx[rule[2]], G[rule[3]]))

BaseExtendedRightStep(G, Mx, res, rule) ==
  IF ~has(Mx, rule[3]) THEN res
  ELSE IF rule[2] \notin DOMAIN G THEN res
  ELSE IF Nvals(G[rule[2]]) = 0 THEN res
  ELSE AddProduct(res, rule[1], MxM(G[rule[2]], Mx[rule[3]]))

BaseDoubleTerminalStep(G, res, rule) ==
  IF rule[2] \notin DOMAIN G \/ rule[3] \notin DOMAIN G THEN res
  ELSE IF Nvals(G[rule[2]]) = 0 \/ Nvals(G[rule[3]]) = 0 THEN res
  ELSE AddProduct(res, rule[1], MxM(G[rule[2]], G[rule[3]]))

RECURSIVE apply_cnf_rules(_, _, _)
apply_cnf_rules(rules, Mx, res) ==
  IF rules = <<>> THEN res
  ELSE apply_cnf_rules(Tail(rules), Mx, BaseCnfStep(Mx, res, Head(rules)))

RECURSIVE apply_extended_left_rules(_, _, _, _)
apply_extended_left_rules(rules, G, Mx, res) ==
  IF rules = <<>> THEN res
  ELSE apply_extended_left_rules(Tail(rules), G, Mx,
                                 BaseExtendedLeftStep(G, Mx, res, Head(rules)))

RECURSIVE apply_extended_right_rules(_, _, _, _)
apply_extended_right_rules(rules, G, Mx, res) ==
  IF rules = <<>> THEN res
  ELSE apply_extended_right_rules(Tail(rules), G, Mx,
                                  BaseExtendedRightStep(G, Mx, res, Head(rules)))

RECURSIVE apply_double_terminal_rules(_, _, _)
apply_double_terminal_rules(rules, G, res) ==
  IF rules = <<>> THEN res
  ELSE apply_double_terminal_rules(Tail(rules), G,
                                   BaseDoubleTerminalStep(G, res, Head(rules)))

multiply_cf_matrices(g, G, Mx) ==
  apply_extended_right_rules(extended_right_rules(g), G, Mx,
    apply_extended_left_rules(extended_left_rules(g), G, Mx,
      apply_cnf_rules(cnf_rules(g), Mx, EmptyCF)))

BaseInitM(g, G, n) ==
  apply_double_terminal_rules(double_terminal_rules(g), G,
    InitEpsilon(g.epsilon_rules_, n, InitSimple(g.simple_rules_, G, EmptyCF)))

\* M.union_with(product)
BaseNextM(g, G, Mx) == union_with(Mx, multiply_cf_matrices(g, G, Mx))

-----------------------------------------------------------------------------
(* Inputs: grammars over the symbols below with at most MaxRules rules and  *)
(* start symbol S, graphs over Vertices with at most MaxEdges labelled      *)
(* edges.  Edge labels are never left-hand sides.                           *)

Vertices == {0, 1}
TerminalPool == {"a", "b"}
NonterminalPool == {"S", "A"}

\* rules of every shape the engines tell apart: epsilon, unary to a terminal,
\* unary to a nonterminal, CNF, ExtRight, ExtLeft, DblTerm
RuleUniverse ==
  {<<"S">>,
   <<"S", "a">>, <<"A", "b">>, <<"S", "A">>,
   <<"S", "S", "S">>,
   <<"S", "a", "A">>, <<"A", "S", "b">>, <<"S", "a", "b">>}

EdgeUniverse == Vertices \X Vertices \X TerminalPool

RECURSIVE SubsetsUpTo(_, _)
SubsetsUpTo(S, k) ==
  IF k = 0 THEN {{}}
  ELSE LET smaller == SubsetsUpTo(S, k - 1)
       IN  smaller \cup {T \cup {x} : T \in smaller, x \in S}

RECURSIVE SetToSeq(_)
SetToSeq(S) ==
  IF S = {} THEN <<>>
  ELSE LET x == CHOOSE y \in S : TRUE IN <<x>> \o SetToSeq(S \ {x})

GrammarOf(rules) ==
  [start_nonterm_ |-> "S",
   epsilon_rules_ |-> SetToSeq({r[1] : r \in {x \in rules : Len(x) = 1}}),
   simple_rules_  |-> SetToSeq({r \in rules : Len(r) = 2}),
   complex_rules_ |-> SetToSeq({r \in rules : Len(r) = 3})]

Grammars == {GrammarOf(rs) : rs \in SubsetsUpTo(RuleUniverse, MaxRules)}

Graphs == SubsetsUpTo(EdgeUniverse, MaxEdges)

-----------------------------------------------------------------------------
(* CFL-reachability: the least family of relations R[N], N a nonterminal,   *)
(* closed under the rules; (u, v) is in R[N] exactly when some path u -> v  *)
(* spells a word derivable from N.                                          *)

SymbolRelation(R, G, X) ==
  IF X \in DOMAIN R THEN R[X]
  ELSE IF X \in DOMAIN G THEN G[X]
  ELSE {}

DerivationStep(g, G, n, R) ==
  [N \in DOMAIN R |->
     R[N]
       \cup (IF \E i \in DOMAIN g.epsilon_rules_ : g.epsilon_rules_[i] = N
               THEN Identity(n) ELSE {})
       \cup UNION {SymbolRelation(R, G, g.simple_rules_[i][2]) :
                     i \in {j \in DOMAIN g.simple_rules_ : g.simple_rules_[j][1] = N}}
       \cup UNION {MxM(SymbolRelation(R, G, g.complex_rules_[i][2]),
                       SymbolRelation(R, G, g.complex_rules_[i][3])) :
                     i \in {j \in DOMAIN g.complex_rules_ : g.complex_rules_[j][1] = N}}]

RECURSIVE LeastFixpoint(_, _, _, _)
LeastFixpoint(g, G, n, R) ==
  LET next == DerivationStep(g, G, n, R)
  IN  IF next = R THEN R ELSE LeastFixpoint(g, G, n, next)

Reachable(g, es) ==
  LeastFixpoint(g, graph_matrices(es), matrix_size_of(es),
                [N \in nonterminals(g) |-> {}])

ReachableFromStart(g, es) == Reachable(g, es)[g.start_nonterm_]

-----------------------------------------------------------------------------
(* The parts of the state a specification does not exercise stay put *)

SolveIdle ==
  /\ grammar = GrammarOf({})
  /\ edges = {}
  /\ versionIdx = 1
  /\ pc = "idle"
  /\ M = EmptyCF
  /\ delta = EmptyCF
  /\ iterations = 0
  /\ converged = FALSE
  /\ warned = FALSE
  /\ prevM = EmptyCF
  /\ results = EmptyCF

CFIdle ==
  /\ cfThis = EmptyCF
  /\ cfOther = EmptyCF
  /\ cfResult = EmptyCF
  /\ cfPc = "idle"

LmsIdle ==
  /\ lmsB = SqrtFactor(1)
  /\ lmsOrdered = FALSE
  /\ lmsSet = EmptyLMS
  /\ lmsAdded = EmptyMatrix
  /\ lmsCount = 0
  /\ lmsOut = EmptyMatrix
  /\ lmsPc = "idle"

SelIdle ==
  /\ selN = 0
  /\ selRules = 0
  /\ selChosen = [type |-> "AUTO"]
  /\ selPc = "idle"

TwiceIdle ==
  /\ callNo = 0
  /\ firstResult = EmptyMatrix

LoadIdle ==
  /\ fsGrammar = [exists |-> FALSE]
  /\ fsGraph = [exists |-> FALSE]
  /\ stderrLog = {}

ExpandIdle ==
  /\ exTemplate = <<>>
  /\ exGraph = <<>>
  /\ exIndices = {}
  /\ exRules = [epsilon_rules |-> <<>>, simple_rules |-> <<>>,
                complex_rules |-> <<>>, start_symbol |-> <<>>]
  /\ exOutput = <<>>
  /\ exPc = "idle"

ClassifyIdle ==
  /\ clsEngine = "none"
  /\ clsBuckets = [cnf_rules |-> <<>>, extended_left_rules |-> <<>>,
                   extended_right_rules |-> <<>>, double_terminal_rules |-> <<>>]
  /\ clsPc = "idle"

QuiesceIdle ==
  changedBy = "none"

MergeIdle ==
  /\ sizeBefore = 0
  /\ merges = 0

StatsIdle ==
  skipped_multiplications = 0

OwnIdle ==
  /\ ownHow = "none"
  /\ ownPc = "idle"
  /\ live = {}
  /\ pairsAt = <<>>
  /\ loadedGraph = <<>>
  /\ algoGraph = <<>>
  /\ graphBefore = <<>>
  /\ mStartAt = 0
  /\ resultAt = 0
  /\ doubleFree = FALSE
  /\ readFreed = FALSE

StepIdle ==
  /\ stepKind = "idle"
  /\ stepA = [M |-> EmptyCF, delta |-> EmptyCF, delta_tmp |-> EmptyCF]
  /\ stepB = [M |-> EmptyCF, delta |-> EmptyCF, delta_tmp |-> EmptyCF]
  /\ stepOrder = [rules |-> <<>>, products |-> <<>>]
  /\ stepPass = 0
  /\ stepPc = "idle"

-----------------------------------------------------------------------------
(* solve, one engine version after the other as in benchmark_all *)

Init ==
  /\ grammar \in Grammars
  /\ edges \in Graphs
  /\ versionIdx = 1
  /\ pc = "start"
  /\ M = EmptyCF
  /\ delta = EmptyCF
  /\ iterations = 0
  /\ converged = FALSE
  /\ warned = FALSE
  /\ prevM = EmptyCF
  /\ results = EmptyCF
  /\ CFIdle
  /\ LmsIdle
  /\ SelIdle
  /\ TwiceIdle
  /\ StepIdle
  /\ OwnIdle
  /\ StatsIdle
  /\ MergeIdle
  /\ QuiesceIdle
  /\ ClassifyIdle
  /\ ExpandIdle
  /\ LoadIdle

\* if (stats.iterations > 100)
TooManyIterationsAtCap(it) == it >= IterationCap

TooManyIterations(it) == it > IterationCap

\* returns the first matrix of M when M holds nothing for the start symbol
SolveResultFirstKey(Mx, g) ==
  IF has(Mx, g.start_nonterm_) THEN Mx[g.start_nonterm_]
  ELSE IF DOMAIN Mx = {} THEN EmptyMatrix
  ELSE Mx[CHOOSE k \in DOMAIN Mx : TRUE]

\* the tail of solve: a duplicate of M[start], or an empty matrix
SolveResult(Mx, g) ==
  IF has(Mx, g.start_nonterm_) THEN Mx[g.start_nonterm_] ELSE EmptyMatrix

\* builds delta only when no earlier call left one behind
SolveStartKeepingDelta ==
  /\ pc = "start"
  /\ M' = IF EngineOf(algo) = "matrix_base_algo_fixed"
            THEN BaseInitM(grammar, graph, matrix_size) ELSE EmptyCF
  /\ delta' = CASE iterations > 0 -> delta
                [] EngineOf(algo) = "IncrementalMatrixAlgo" ->
                     IncrementalInitDelta(config, grammar, graph, matrix_size)
                [] EngineOf(algo) = "FullyOptimizedAlgo" ->
                     FullInitDelta(config, grammar, graph, matrix_size)
                [] OTHER -> EmptyCF
  /\ prevM' = M'
  /\ iterations' = 0
  /\ pc' = "loop"
  /\ UNCHANGED <<grammar, edges, versionIdx, converged, warned, results>>
  /\ UNCHANGED nonSolveVars

\* solve up to the main loop: the initialisation of M (base) or of delta
SolveStart ==
  /\ pc = "start"
  /\ M' = IF EngineOf(algo) = "matrix_base_algo_fixed"
            THEN BaseInitM(grammar, graph, matrix_size) ELSE EmptyCF
  /\ delta' = CASE EngineOf(algo) = "IncrementalMatrixAlgo" ->
                     IncrementalInitDelta(config, grammar, graph, matrix_size)
                [] EngineOf(algo) = "FullyOptimizedAlgo" ->
                     FullInitDelta(config, grammar, graph, matrix_size)
                [] OTHER -> EmptyCF
  /\ prevM' = M'
  /\ iterations' = 0
  /\ pc' = "loop"
  /\ UNCHANGED <<grammar, edges, versionIdx, converged, warned, results>>
  /\ UNCHANGED nonSolveVars

\* one pass of "while (changed)" of matrix_base_algo_fixed::solve
BaseIterate ==
  /\ pc = "loop"
  /\ EngineOf(algo) = "matrix_base_algo_fixed"
  /\ iterations' = iterations + 1
  /\ M' = BaseNextM(grammar, graph, M)
  /\ prevM' = M
  /\ converged' = equals(M', M)
  /\ warned' = TooManyIterations(iterations')
  /\ pc' = IF converged' \/ warned' THEN "return" ELSE "loop"
  /\ UNCHANGED <<grammar, edges, versionIdx, delta, results>>
  /\ UNCHANGED nonSolveVars

\* IncrementalMatrixAlgo: the pass of "while (true)" that finds delta empty
IncrementalConverged ==
  /\ pc = "loop"
  /\ EngineOf(algo) = "IncrementalMatrixAlgo"
  /\ TotalNvals(delta) = 0
  /\ iterations' = iterations + 1
  /\ converged' = TRUE
  /\ pc' = "return"
  /\ UNCHANGED <<grammar, edges, versionIdx, M, delta, warned, prevM, results>>
  /\ UNCHANGED nonSolveVars

\* IncrementalMatrixAlgo: a full pass of "while (true)":
\* delta_tmp, M |= delta, delta = delta_tmp \ M, cap
IncrementalIterate ==
  /\ pc = "loop"
  /\ EngineOf(algo) = "IncrementalMatrixAlgo"
  /\ TotalNvals(delta) # 0
  /\ iterations' = iterations + 1
  /\ M' = union_with(M, delta)
  /\ delta' = IncrementalNextDelta(config, grammar, graph, M, delta)
  /\ prevM' = M
  /\ warned' = TooManyIterations(iterations')
  /\ pc' = IF warned' THEN "return" ELSE "loop"
  /\ UNCHANGED <<grammar, edges, versionIdx, converged, results>>
  /\ UNCHANGED nonSolveVars

\* FullyOptimizedAlgo: the pass of "while (true)" that finds delta empty
FullConverged ==
  /\ pc = "loop"
  /\ EngineOf(algo) = "FullyOptimizedAlgo"
  /\ TotalNvals(delta) = 0
  /\ iterations' = iterations + 1
  /\ converged' = TRUE
  /\ pc' = "return"
  /\ UNCHANGED <<grammar, edges, versionIdx, M, delta, warned, prevM, results>>
  /\ UNCHANGED nonSolveVars

\* FullyOptimizedAlgo: a full pass of "while (true)": lazy_delta_tmp,
\* M |= delta, delta = to_normal(lazy_delta_tmp) \ M, cap
FullIterate ==
  /\ pc = "loop"
  /\ EngineOf(algo) = "FullyOptimizedAlgo"
  /\ TotalNvals(delta) # 0
  /\ iterations' = iterations + 1
  /\ M' = union_with(M, delta)
  /\ delta' = FullNextDelta(config, grammar, graph, matrix_size, M, delta)
  /\ prevM' = M
  /\ warned' = TooManyIterations(iterations')
  /\ pc' = IF warned' THEN "return" ELSE "loop"
  /\ UNCHANGED <<grammar, edges, versionIdx, converged, results>>
  /\ UNCHANGED nonSolveVars

SolveReturn ==
  /\ pc = "return"
  /\ results' = [k \in (DOMAIN results) \cup {algo} |->
                   IF k = algo THEN SolveResult(M, grammar) ELSE results[k]]
  /\ pc' = "done"
  /\ UNCHANGED <<grammar, edges, versionIdx, M, delta, iterations, converged,
                 warned, prevM>>
  /\ UNCHANGED nonSolveVars

\* benchmark_all moves on to the next version
NextVersion ==
  /\ pc = "done"
  /\ versionIdx < Len(Versions)
  /\ versionIdx' = versionIdx + 1
  /\ pc' = "start"
  /\ M' = EmptyCF
  /\ delta' = EmptyCF
  /\ prevM' = EmptyCF
  /\ iterations' = 0
  /\ converged' = FALSE
  /\ warned' = FALSE
  /\ UNCHANGED <<grammar, edges, results>>
  /\ UNCHANGED nonSolveVars

Next ==
  \/ SolveStart
  \/ BaseIterate
  \/ IncrementalConverged
  \/ IncrementalIterate
  \/ FullConverged
  \/ FullIterate
  \/ SolveReturn
  \/ NextVersion

Spec == Init /\ [][Next]_vars

-----------------------------------------------------------------------------
(* solve of the second copy of IncrementalMatrixAlgo, with the configuration *)
(* of INCREMENTAL or of TRIVIAL_OPT                                          *)

InitVariant ==
  /\ grammar \in Grammars
  /\ edges \in Graphs
  /\ versionIdx \in {i \in DOMAIN Versions : EngineOf(Versions[i]) = "IncrementalMatrixAlgo"}
  /\ pc = "start"
  /\ M = EmptyCF
  /\ delta = EmptyCF
  /\ iterations = 0
  /\ converged = FALSE
  /\ warned = FALSE
  /\ prevM = EmptyCF
  /\ results = EmptyCF
  /\ CFIdle
  /\ LmsIdle
  /\ SelIdle
  /\ TwiceIdle
  /\ StepIdle
  /\ OwnIdle
  /\ StatsIdle
  /\ MergeIdle
  /\ QuiesceIdle
  /\ ClassifyIdle
  /\ ExpandIdle
  /\ LoadIdle

VariantStart ==
  /\ pc = "start"
  /\ M' = EmptyCF
  /\ delta' = VariantInitDelta(config, grammar, graph, matrix_size)
  /\ prevM' = M'
  /\ iterations' = 0
  /\ pc' = "loop"
  /\ UNCHANGED <<grammar, edges, versionIdx, converged, warned, results>>
  /\ UNCHANGED nonSolveVars

VariantConverged ==
  /\ pc = "loop"
  /\ TotalNvals(delta) = 0
  /\ iterations' = iterations + 1
  /\ converged' = TRUE
  /\ pc' = "return"
  /\ UNCHANGED <<grammar, edges, versionIdx, M, delta, warned, prevM, results>>
  /\ UNCHANGED nonSolveVars

VariantIterate ==
  /\ pc = "loop"
  /\ TotalNvals(delta) # 0
  /\ iterations' = iterations + 1
  /\ M' = union_with(M, delta)
  /\ delta' = VariantNextDelta(config, grammar, graph, M, delta)
  /\ prevM' = M
  /\ warned' = TooManyIterations(iterations')
  /\ pc' = IF warned' THEN "return" ELSE "loop"
  /\ UNCHANGED <<grammar, edges, versionIdx, converged, results>>
  /\ UNCHANGED nonSolveVars

VariantReturn ==
  /\ pc = "return"
  /\ results' = [k \in (DOMAIN results) \cup {algo} |->
                   IF k = algo THEN SolveResult(M, grammar) ELSE results[k]]
  /\ pc' = "done"
  /\ UNCHANGED <<grammar, edges, versionIdx, M, delta, iterations, converged,
                 warned, prevM>>
  /\ UNCHANGED nonSolveVars

NextVariant ==
  \/ VariantStart
  \/ VariantConverged
  \/ VariantIterate
  \/ VariantReturn

SpecVariant == InitVariant /\ [][NextVariant]_vars

-----------------------------------------------------------------------------
(* The five versions on the grammars and graphs of the end-to-end tests.    *)
(* The rules are in the order of the lines of the grammar file.             *)

\* an_bn: S -> a S1, S1 -> S b, S -> a b on the path 0 -a-> 1 -a-> 2 -b-> 3 -b-> 4
ScenarioAnBn ==
  [grammar |-> [start_nonterm_ |-> "S",
                epsilon_rules_ |-> <<>>,
                simple_rules_  |-> <<>>,
                complex_rules_ |-> <<<<"S", "a", "S1">>, <<"S1", "S", "b">>,
                                     <<"S", "a", "b">>>>],
   edges   |-> {<<0, 1, "a">>, <<1, 2, "a">>, <<2, 3, "b">>, <<3, 4, "b">>}]

\* unary chain: S -> A, A -> B, B -> b on the single edge 0 -b-> 1
ScenarioUnaryChain ==
  [grammar |-> [start_nonterm_ |-> "S",
                epsilon_rules_ |-> <<>>,
                simple_rules_  |-> <<<<"S", "A">>, <<"A", "B">>, <<"B", "b">>>>,
                complex_rules_ |-> <<>>],
   edges   |-> {<<0, 1, "b">>}]

Scenarios == {ScenarioAnBn, ScenarioUnaryChain}

InitScenario ==
  /\ \E sc \in Scenarios :
       /\ grammar = sc.grammar
       /\ edges = sc.edges
  /\ versionIdx = 1
  /\ pc = "start"
  /\ M = EmptyCF
  /\ delta = EmptyCF
  /\ iterations = 0
  /\ converged = FALSE
  /\ warned = FALSE
  /\ prevM = EmptyCF
  /\ results = EmptyCF
  /\ CFIdle
  /\ LmsIdle
  /\ SelIdle
  /\ TwiceIdle
  /\ StepIdle
  /\ OwnIdle
  /\ StatsIdle
  /\ MergeIdle
  /\ QuiesceIdle
  /\ ClassifyIdle
  /\ ExpandIdle
  /\ LoadIdle

SpecScenario == InitScenario /\ [][Next]_vars

-----------------------------------------------------------------------------
(* CFReachabilityAlgoFactory::solve(grammar_path, graph_path, type): the    *)
(* two constructors read the files, then the engine of the version runs.    *)

FileMissing == [exists |-> FALSE]

FileWith(content) == [exists |-> TRUE, content |-> content]

\* cnf_grammar(): start_nonterm_{} and no rules
DefaultGrammar ==
  [start_nonterm_ |-> "", epsilon_rules_ |-> <<>>, simple_rules_ |-> <<>>,
   complex_rules_ |-> <<>>]

\* cnf_grammar(path): the rules are read when infile.is_open(); otherwise a
\* line goes to std::cerr and the object stays as default-initialised
cnf_grammar_from(file) ==
  [grammar |-> IF file.exists THEN file.content ELSE DefaultGrammar,
   cerr    |-> IF file.exists THEN {} ELSE {"Unable to open file"}]

\* label_decomposed_graph(path): a line goes to std::cerr when the file is
\* not open; getline then reads nothing and ++matrix_size makes it 1
label_decomposed_graph_from(file) ==
  [edges |-> IF file.exists THEN file.content ELSE {},
   cerr  |-> IF file.exists THEN {} ELSE {"Can't open file"}]

FileGrammars == {GrammarOf(rs) : rs \in SubsetsUpTo(RuleUniverse, MaxRules - 1)}

FileGraphs == SubsetsUpTo(EdgeUniverse, MaxEdges - 1)

InitFiles ==
  /\ fsGrammar \in {FileMissing} \cup {FileWith(g) : g \in FileGrammars}
  /\ fsGraph \in {FileMissing} \cup {FileWith(es) : es \in FileGraphs}
  /\ stderrLog = {}
  /\ grammar = DefaultGrammar
  /\ edges = {}
  /\ versionIdx \in DOMAIN Versions
  /\ pc = "load"
  /\ M = EmptyCF
  /\ delta = EmptyCF
  /\ iterations = 0
  /\ converged = FALSE
  /\ warned = FALSE
  /\ prevM = EmptyCF
  /\ results = EmptyCF
  /\ CFIdle
  /\ LmsIdle
  /\ SelIdle
  /\ TwiceIdle
  /\ StepIdle
  /\ OwnIdle
  /\ StatsIdle
  /\ MergeIdle
  /\ QuiesceIdle
  /\ ClassifyIdle
  /\ ExpandIdle

\* cnf_grammar grammar(grammar_path); label_decomposed_graph graph(graph_path);
\* return solve(grammar, graph, type);
LoadFiles ==
  /\ pc = "load"
  /\ grammar' = cnf_grammar_from(fsGrammar).grammar
  /\ edges' = label_decomposed_graph_from(fsGraph).edges
  /\ stderrLog' = cnf_grammar_from(fsGrammar).cerr
                     \cup label_decomposed_graph_from(fsGraph).cerr
  /\ pc' = "start"
  /\ UNCHANGED <<versionIdx, M, delta, iterations, converged, warned, prevM, results>>
  /\ UNCHANGED <<fsGrammar, fsGraph>>
  /\ UNCHANGED <<cfVars, lmsVars, selVars, twiceVars, stepVars, expandVars, classifyVars, quiesceVars, mergeVars, statsVars, ownVars>>

NextFiles ==
  \/ LoadFiles
  \/ SolveStart
  \/ BaseIterate
  \/ IncrementalConverged
  \/ IncrementalIterate
  \/ FullConverged
  \/ FullIterate
  \/ SolveReturn

SpecFiles == InitFiles /\ [][NextFiles]_vars

-----------------------------------------------------------------------------
(* The factory's solve called twice with the same grammar, graph and        *)
(* version.  Each call constructs its engine anew: the engine's graph is a  *)
(* duplicate of the caller's, M and delta are locals of solve.  What the    *)
(* first call leaves in the state stays there when the second call starts.  *)

\* graphs of the repeated calls
TwiceGraphs == SubsetsUpTo(EdgeUniverse, MaxEdges - 1)

InitTwice ==
  /\ grammar \in Grammars
  /\ edges \in TwiceGraphs
  /\ versionIdx \in DOMAIN Versions
  /\ pc = "start"
  /\ M = EmptyCF
  /\ delta = EmptyCF
  /\ iterations = 0
  /\ converged = FALSE
  /\ warned = FALSE
  /\ prevM = EmptyCF
  /\ results = EmptyCF
  /\ callNo = 1
  /\ firstResult = EmptyMatrix
  /\ CFIdle
  /\ LmsIdle
  /\ SelIdle
  /\ StepIdle
  /\ OwnIdle
  /\ StatsIdle
  /\ MergeIdle
  /\ QuiesceIdle
  /\ ClassifyIdle
  /\ ExpandIdle
  /\ LoadIdle

\* the caller keeps the first result and calls solve again; the loop of
\* the second call starts from its "while", not from the exit the first took
SolveAgain ==
  /\ pc = "done"
  /\ callNo = 1
  /\ callNo' = 2
  /\ firstResult' = results[algo]
  /\ pc' = "start"
  /\ converged' = FALSE
  /\ warned' = FALSE
  /\ UNCHANGED <<grammar, edges, versionIdx, M, delta, iterations, prevM, results>>
  /\ UNCHANGED <<cfVars, lmsVars, selVars, stepVars, loadVars, expandVars, classifyVars, quiesceVars, mergeVars, statsVars, ownVars>>

NextTwice ==
  \/ SolveStart
  \/ BaseIterate
  \/ IncrementalConverged
  \/ IncrementalIterate
  \/ FullConverged
  \/ FullIterate
  \/ SolveReturn
  \/ SolveAgain

SpecTwice == InitTwice /\ [][NextTwice]_vars

-----------------------------------------------------------------------------
(* Two runs of the closure loop side by side on the same grammar and graph: *)
(* with and without trivial checks, eager and lazy addition, the order of   *)
(* the source and another order of the rules and of their products.  Every  *)
(* run makes its own passes from its own (M, delta); the first MaxPasses    *)
(* passes are followed.                                                     *)

Side(engine, trivial, lazy, reorder) ==
  [engine  |-> engine,
   cfg     |-> [use_trivial_checks |-> trivial, use_lazy_add |-> lazy],
   reorder |-> reorder]

StepKinds ==
  {"trivial", "trivial_lazy", "lazy_on", "lazy_off", "order", "order_lazy"}

SidesOf(kind) ==
  CASE kind = "trivial" ->
         <<Side("IncrementalMatrixAlgo", FALSE, FALSE, FALSE),
           Side("IncrementalMatrixAlgo", TRUE, FALSE, FALSE)>>
    [] kind = "trivial_lazy" ->
         <<Side("FullyOptimizedAlgo", FALSE, TRUE, FALSE),
           Side("FullyOptimizedAlgo", TRUE, TRUE, FALSE)>>
    [] kind = "lazy_on" ->
         <<Side("IncrementalMatrixAlgo", TRUE, FALSE, FALSE),
           Side("FullyOptimizedAlgo", TRUE, TRUE, FALSE)>>
    [] kind = "lazy_off" ->
         <<Side("IncrementalMatrixAlgo", TRUE, FALSE, FALSE),
           Side("FullyOptimizedAlgo", TRUE, FALSE, FALSE)>>
    [] kind = "order" ->
         <<Side("IncrementalMatrixAlgo", TRUE, FALSE, FALSE),
           Side("IncrementalMatrixAlgo", TRUE, FALSE, TRUE)>>
    [] OTHER ->
         <<Side("FullyOptimizedAlgo", TRUE, TRUE, FALSE),
           Side("FullyOptimizedAlgo", TRUE, TRUE, TRUE)>>

\* the order of the source: CNF, ExtLeft, ExtRight, then the unary rules
CanonicalOrder(g) ==
  cnf_rules(g) \o extended_left_rules(g) \o extended_right_rules(g) \o g.simple_rules_

CanonicalProducts == <<1, 2, 3>>

RECURSIVE Orders(_)
Orders(S) ==
  IF S = {} THEN {<<>>}
  ELSE UNION {{<<x>> \o rest : rest \in Orders(S \ {x})} : x \in S}

RuleOrders(g) == Orders({CanonicalOrder(g)[i] : i \in DOMAIN CanonicalOrder(g)})

\* the three products of a CNF rule: 1 delta*delta, 2 M*delta, 3 delta*M
CnfStepInOrder(cfg, Mx, d, res, rule, perm) ==
  LET X == rule[1]
      Y == rule[2]
      Z == rule[3]
      apply(r, i) ==
        CASE i = 1 -> IF has(d, Y) /\ has(d, Z)
                        THEN MultiplyInto(cfg, r, X, d[Y], d[Z]) ELSE r
          [] i = 2 -> IF has(Mx, Y) /\ has(d, Z)
                        THEN MultiplyInto(cfg, r, X, Mx[Y], d[Z]) ELSE r
          [] OTHER -> IF has(d, Y) /\ has(Mx, Z)
                        THEN MultiplyInto(cfg, r, X, d[Y], Mx[Z]) ELSE r
  IN  apply(apply(apply(res, perm[1]), perm[2]), perm[3])

CnfStepLazyInOrder(cfg, b, Mx, d, lz, rule, perm) ==
  LET X == rule[1]
      Y == rule[2]
      Z == rule[3]
      apply(r, i) ==
        CASE i = 1 -> IF has(d, Y) /\ has(d, Z)
                        THEN multiply_and_add_lazy(cfg, b, d[Y], d[Z], X, r) ELSE r
          [] i = 2 -> IF has(Mx, Y) /\ has(d, Z)
                        THEN multiply_and_add_lazy(cfg, b, Mx[Y], d[Z], X, r) ELSE r
          [] OTHER -> IF has(d, Y) /\ has(Mx, Z)
                        THEN multiply_and_add_lazy(cfg, b, d[Y], Mx[Z], X, r) ELSE r
  IN  apply(apply(apply(lz, perm[1]), perm[2]), perm[3])

RECURSIVE EagerInOrder(_, _, _, _, _, _, _, _)
EagerInOrder(cfg, g, G, Mx, d, res, order, perm) ==
  IF order = <<>> THEN res
  ELSE LET rule == Head(order)
           next == IF Len(rule) = 2 THEN SimpleStep(d, res, rule)
                   ELSE CASE Bucket(g, rule) = "cnf" ->
                               CnfStepInOrder(cfg, Mx, d, res, rule, perm)
                          [] Bucket(g, rule) = "extended_left" ->
                               ExtendedLeftStep(cfg, G, Mx, d, res, rule)
                          [] Bucket(g, rule) = "extended_right" ->
                               ExtendedRightStep(cfg, G, Mx, d, res, rule)
                          [] OTHER -> res
       IN  EagerInOrder(cfg, g, G, Mx, d, next, Tail(order), perm)

RECURSIVE LazyInOrder(_, _, _, _, _, _, _, _, _)
LazyInOrder(cfg, b, g, G, Mx, d, lz, order, perm) ==
  IF order = <<>> THEN lz
  ELSE LET rule == Head(order)
           next == IF Len(rule) = 2 THEN SimpleStepLazy(b, d, lz, rule)
                   ELSE CASE Bucket(g, rule) = "cnf" ->
                               CnfStepLazyInOrder(cfg, b, Mx, d, lz, rule, perm)
                          [] Bucket(g, rule) = "extended_left" ->
                               ExtendedLeftStepLazy(cfg, b, G, Mx, d, lz, rule)
                          [] Bucket(g, rule) = "extended_right" ->
                               ExtendedRightStepLazy(cfg, b, G, Mx, d, lz, rule)
                          [] OTHER -> lz
       IN  LazyInOrder(cfg, b, g, G, Mx, d, next, Tail(order), perm)

\* delta before the loop, as the side's engine builds it
SideInitDelta(side, g, G, n) ==
  IF side.engine = "IncrementalMatrixAlgo"
    THEN IncrementalInitDelta(side.cfg, g, G, n)
    ELSE FullInitDelta(side.cfg, g, G, n)

\* delta_tmp of one pass: the apply_* calls, and to_normal for the lazy engine
SideDeltaTmp(side, g, G, n, Mx, d, order, perm) ==
  IF side.engine = "IncrementalMatrixAlgo"
    THEN IF side.reorder
           THEN EagerInOrder(side.cfg, g, G, Mx, d, EmptyCF, order, perm)
           ELSE IncrementalDeltaTmp(side.cfg, g, G, Mx, d)
    ELSE to_normal(IF side.reorder
                     THEN LazyInOrder(side.cfg, b_factor_of(n), g, G, Mx, d,
                                      EmptyCF, order, perm)
                     ELSE FullLazyDeltaTmp(side.cfg, g, G, n, Mx, d))

\* one pass of "while (true)"; a run whose delta is empty has left the loop
SidePass(side, run, g, G, n, order, perm) ==
  IF TotalNvals(run.delta) = 0 THEN run
  ELSE LET tmp == SideDeltaTmp(side, g, G, n, run.M, run.delta, order, perm)
           Mn  == union_with(run.M, run.delta)
       IN  [M |-> Mn, delta |-> difference(tmp, Mn), delta_tmp |-> tmp]

InitStep ==
  /\ grammar \in Grammars
  /\ edges \in Graphs
  /\ versionIdx = 1
  /\ pc = "idle"
  /\ M = EmptyCF
  /\ delta = EmptyCF
  /\ iterations = 0
  /\ converged = FALSE
  /\ warned = FALSE
  /\ prevM = EmptyCF
  /\ results = EmptyCF
  /\ stepKind \in StepKinds
  /\ stepA = [M |-> EmptyCF, delta |-> EmptyCF, delta_tmp |-> EmptyCF]
  /\ stepB = [M |-> EmptyCF, delta |-> EmptyCF, delta_tmp |-> EmptyCF]
  /\ stepOrder = [rules |-> <<>>, products |-> <<>>]
  /\ stepPass = 0
  /\ stepPc = "start"
  /\ CFIdle
  /\ LmsIdle
  /\ SelIdle
  /\ TwiceIdle
  /\ LoadIdle
  /\ ExpandIdle
  /\ OwnIdle
  /\ StatsIdle
  /\ MergeIdle
  /\ QuiesceIdle
  /\ ClassifyIdle

\* the orders the second run may follow: when it reorders, any order but
\* the source's of the rules of the loop and, when a CNF rule is among
\* them, of its three products
StepOrders(kind, g) ==
  LET canonical == [rules |-> CanonicalOrder(g), products |-> CanonicalProducts]
  IN  IF ~SidesOf(kind)[2].reorder THEN {canonical}
      ELSE {[rules |-> order, products |-> perm] :
              order \in RuleOrders(g),
              perm \in (IF cnf_rules(g) = <<>> THEN {CanonicalProducts}
                         ELSE Orders({1, 2, 3}))} \ {canonical}

\* both runs up to their main loop; the second run settles on its order
StepStart ==
  /\ stepPc = "start"
  /\ stepOrder' \in StepOrders(stepKind, grammar)
  /\ stepA' = [M |-> EmptyCF, delta_tmp |-> EmptyCF,
               delta |-> SideInitDelta(SidesOf(stepKind)[1], grammar, graph, matrix_size)]
  /\ stepB' = [M |-> EmptyCF, delta_tmp |-> EmptyCF,
               delta |-> SideInitDelta(SidesOf(stepKind)[2], grammar, graph, matrix_size)]
  /\ stepPc' = "loop"
  /\ UNCHANGED <<stepKind, stepPass>>
  /\ UNCHANGED nonStepVars

\* both runs make their next pass, the second one in its order
StepPass ==
  /\ stepPc = "loop"
  /\ stepPass < MaxPasses
  /\ TotalNvals(stepA.delta) # 0 \/ TotalNvals(stepB.delta) # 0
  /\ stepA' = SidePass(SidesOf(stepKind)[1], stepA, grammar, graph, matrix_size,
                       CanonicalOrder(grammar), CanonicalProducts)
  /\ stepB' = SidePass(SidesOf(stepKind)[2], stepB, grammar, graph, matrix_size,
                       stepOrder.rules, stepOrder.products)
  /\ stepPass' = stepPass + 1
  /\ UNCHANGED <<stepKind, stepOrder, stepPc>>
  /\ UNCHANGED nonStepVars

NextStep ==
  \/ StepStart
  \/ StepPass

SpecStep == InitStep /\ [][NextStep]_vars

-----------------------------------------------------------------------------
(* CFMatrixRepresentation on its own: difference, and difference of a union *)

\* matrices over Vertices with at most MaxNvals TRUE entries
MatrixPool == SubsetsUpTo(Vertices \X Vertices, MaxNvals)

CFPool == UNION {[K -> MatrixPool] : K \in SUBSET NonterminalPool}

InitCF ==
  /\ cfThis \in CFPool
  /\ cfOther \in CFPool
  /\ cfResult = EmptyCF
  /\ cfPc = "input"
  /\ SolveIdle
  /\ LmsIdle
  /\ SelIdle
  /\ TwiceIdle
  /\ StepIdle
  /\ OwnIdle
  /\ StatsIdle
  /\ MergeIdle
  /\ QuiesceIdle
  /\ ClassifyIdle
  /\ ExpandIdle
  /\ LoadIdle

\* D = A.difference(B)
CFDifference ==
  /\ cfPc = "input"
  /\ cfResult' = difference(cfThis, cfOther)
  /\ cfPc' = "difference"
  /\ UNCHANGED <<cfThis, cfOther>>
  /\ UNCHANGED nonCFVars

\* C = A.clone(); C.union_with(B); D = C.difference(B)
CFUnionDifference ==
  /\ cfPc = "input"
  /\ cfResult' = difference(union_with(cfThis, cfOther), cfOther)
  /\ cfPc' = "union_difference"
  /\ UNCHANGED <<cfThis, cfOther>>
  /\ UNCHANGED nonCFVars

\* A.equals(B), B.equals(A), A.equals(A), and A.equals(C) for a C that
\* B.equals(C) accepts
CFEquals ==
  /\ cfPc = "input"
  /\ \E third \in {c \in CFPool : equals(cfOther, c)} :
       cfResult' = [third       |-> third,
                    this_other  |-> equals(cfThis, cfOther),
                    other_this  |-> equals(cfOther, cfThis),
                    this_this   |-> equals(cfThis, cfThis),
                    other_third |-> equals(cfOther, third),
                    this_third  |-> equals(cfThis, third)]
  /\ cfPc' = "equals"
  /\ UNCHANGED <<cfThis, cfOther>>
  /\ UNCHANGED nonCFVars

NextCF ==
  \/ CFDifference
  \/ CFUnionDifference
  \/ CFEquals

SpecCF == InitCF /\ [][NextCF]_vars

-----------------------------------------------------------------------------
(* LazyMatrixSet on its own: a set with factor b, in either version of      *)
(* maintain_invariant, taking adds and materialize calls                    *)

LmsMatrixPool == SUBSET (Vertices \X Vertices)

\* b = 1 (sqrt of a 1-vertex graph), sqrt(2), 2
LmsFactors == {SqrtFactor(1), SqrtFactor(2), SqrtFactor(4)}

InitLMS ==
  /\ lmsB \in LmsFactors
  /\ lmsOrdered \in BOOLEAN
  /\ lmsSet = EmptyLMS
  /\ lmsAdded = EmptyMatrix
  /\ lmsCount = 0
  /\ lmsOut = EmptyMatrix
  /\ lmsPc = "new"
  /\ SolveIdle
  /\ CFIdle
  /\ SelIdle
  /\ TwiceIdle
  /\ StepIdle
  /\ OwnIdle
  /\ StatsIdle
  /\ MergeIdle
  /\ QuiesceIdle
  /\ ClassifyIdle
  /\ ExpandIdle
  /\ LoadIdle

LmsAdd ==
  /\ lmsCount < MaxAdds
  /\ \E new_matrix \in LmsMatrixPool :
       /\ lmsSet' = lms_add(lmsSet, lmsB, lmsOrdered, new_matrix)
       /\ lmsAdded' = EWiseAdd(lmsAdded, new_matrix)
  /\ lmsCount' = lmsCount + 1
  /\ lmsPc' = "added"
  /\ UNCHANGED <<lmsB, lmsOrdered, lmsOut>>
  /\ UNCHANGED nonLmsVars

\* materialize reads the members and builds a fresh matrix
LmsMaterialize ==
  /\ lmsOut' = materialize(lmsSet)
  /\ lmsPc' = "materialized"
  /\ UNCHANGED <<lmsB, lmsOrdered, lmsSet, lmsAdded, lmsCount>>
  /\ UNCHANGED nonLmsVars

NextLMS ==
  \/ LmsAdd
  \/ LmsMaterialize

SpecLMS == InitLMS /\ [][NextLMS]_vars

-----------------------------------------------------------------------------
(* Automatic selection: CFReachabilityAlgoFactory::choose_algo_type and     *)
(* FullyOptimizedAlgo::solve_auto with OptimizationConfig::automatic        *)

SmallGraphLimit == 500
AutomaticSmallLimit == 1000
AutomaticLargeLimit == 10000
TemplateRuleLimit == 100

choose_algo_type_inclusive(n, num_rules) ==
  IF n <= SmallGraphLimit THEN "TRIVIAL_OPT" ELSE "FULLY_OPTIMIZED"

choose_algo_type(n, num_rules) ==
  IF n < SmallGraphLimit THEN "TRIVIAL_OPT" ELSE "FULLY_OPTIMIZED"

\* the switch of the factory that owns choose_algo_type
AutoFactoryConfigOf(type) ==
  CASE type = "TRIVIAL_OPT"     -> [use_trivial_checks |-> TRUE,  use_lazy_add |-> FALSE]
    [] type = "LAZY_ADD"        -> [use_trivial_checks |-> FALSE, use_lazy_add |-> TRUE]
    [] type = "FULLY_OPTIMIZED" -> [use_trivial_checks |-> TRUE,  use_lazy_add |-> TRUE]
    [] OTHER                    -> [use_trivial_checks |-> FALSE, use_lazy_add |-> FALSE]

OptimizationConfigNone ==
  [use_incremental |-> FALSE, use_trivial_checks |-> FALSE,
   use_format_optimization |-> FALSE, use_lazy_add |-> FALSE,
   use_templates |-> FALSE, use_grammar_rewriting |-> FALSE]

automatic(n, num_rules) ==
  IF n < AutomaticSmallLimit THEN OptimizationConfigNone
  ELSE IF n < AutomaticLargeLimit
    THEN [OptimizationConfigNone EXCEPT !.use_incremental = TRUE,
                                        !.use_trivial_checks = TRUE]
    ELSE [OptimizationConfigNone EXCEPT !.use_incremental = TRUE,
                                        !.use_trivial_checks = TRUE,
                                        !.use_lazy_add = TRUE,
                                        !.use_format_optimization = TRUE,
                                        !.use_templates = (num_rules > TemplateRuleLimit)]

Around(t) == {t - 1, t, t + 1}

SelSizes ==
  {0, 1} \cup Around(SmallGraphLimit) \cup Around(AutomaticSmallLimit)
         \cup Around(AutomaticLargeLimit)

SelRuleCounts == {0} \cup Around(TemplateRuleLimit)

InitSelect ==
  /\ selN \in SelSizes
  /\ selRules \in SelRuleCounts
  /\ selChosen = [type |-> "AUTO"]
  /\ selPc = "input"
  /\ SolveIdle
  /\ CFIdle
  /\ LmsIdle
  /\ TwiceIdle
  /\ StepIdle
  /\ OwnIdle
  /\ StatsIdle
  /\ MergeIdle
  /\ QuiesceIdle
  /\ ClassifyIdle
  /\ ExpandIdle
  /\ LoadIdle

\* CFReachabilityAlgoFactory::solve(grammar, graph, AUTO)
ChooseAlgoType ==
  /\ selPc = "input"
  /\ LET type == choose_algo_type(selN, selRules)
     IN  selChosen' = [type               |-> type,
                       engine             |-> EngineOf(type),
                       use_trivial_checks |-> AutoFactoryConfigOf(type).use_trivial_checks,
                       use_lazy_add       |-> AutoFactoryConfigOf(type).use_lazy_add,
                       b_factor           |-> b_factor_of(selN)]
  /\ selPc' = "choose_algo_type"
  /\ UNCHANGED <<selN, selRules>>
  /\ UNCHANGED nonSelVars

\* FullyOptimizedAlgo::solve_auto
SolveAuto ==
  /\ selPc = "input"
  /\ LET cfg == automatic(selN, selRules)
     IN  selChosen' = [type               |-> "AUTO",
                       engine             |-> "FullyOptimizedAlgo",
                       use_trivial_checks |-> cfg.use_trivial_checks,
                       use_lazy_add       |-> cfg.use_lazy_add,
                       use_incremental    |-> cfg.use_incremental,
                       use_templates      |-> cfg.use_templates,
                       b_factor           |-> b_factor_of(selN)]
  /\ selPc' = "solve_auto"
  /\ UNCHANGED <<selN, selRules>>
  /\ UNCHANGED nonSelVars

NextSelect ==
  \/ ChooseAlgoType
  \/ SolveAuto

SpecSelect == InitSelect /\ [][NextSelect]_vars

-----------------------------------------------------------------------------
(* GrammarTemplateExpander::expand_grammar_template.  A symbol is the sequence
   of its characters, a line of a file the sequence of its symbols. *)

DigitChars == <<"0", "1", "2", "3", "4", "5", "6", "7", "8", "9">>

isdigit(c) == \E d \in DOMAIN DigitChars : DigitChars[d] = c

\* std::stoi on a run of decimal digits
RECURSIVE stoi(_)
stoi(digits) ==
  IF digits = <<>> THEN 0
  ELSE LET n == Len(digits)
           d == CHOOSE k \in DOMAIN DigitChars : DigitChars[k] = digits[n]
       IN 10 * stoi(SubSeq(digits, 1, n - 1)) + (d - 1)

\* std::to_string of a non-negative int
RECURSIVE to_string(_)
to_string(n) ==
  IF n < 10 THEN <<DigitChars[n + 1]>>
  ELSE to_string(n \div 10) \o <<DigitChars[(n % 10) + 1]>>

\* the lengths k of a digit run that lets "_i_(\\d+)$" match at the end of symbol
index_pattern(symbol) ==
  {k \in 1..Len(symbol) :
     /\ Len(symbol) >= k + 3
     /\ \A j \in (Len(symbol) - k + 1)..Len(symbol) : isdigit(symbol[j])
     /\ SubSeq(symbol, Len(symbol) - k - 2, Len(symbol) - k) = <<"_", "i", "_">>}

extract_index(symbol) ==
  IF index_pattern(symbol) # {}
  THEN LET k == CHOOSE x \in index_pattern(symbol) : TRUE
       IN [found |-> TRUE,
           index |-> stoi(SubSeq(symbol, Len(symbol) - k + 1, Len(symbol)))]
  ELSE [found |-> FALSE, index |-> 0]

is_template_symbol(symbol) ==
  IF Len(symbol) < 2 THEN FALSE
  ELSE IF SubSeq(symbol, Len(symbol) - 1, Len(symbol)) # <<"_", "i">> THEN FALSE
  ELSE index_pattern(symbol) = {}

\* the mutation: the suffix is replaced without asking is_template_symbol
instantiate_template_unchecked(template_symbol, index) ==
  SubSeq(template_symbol, 1, Len(template_symbol) - 2)
    \o <<"_", "i", "_">> \o to_string(index)

instantiate_template(template_symbol, index) ==
  IF is_template_symbol(template_symbol)
  THEN SubSeq(template_symbol, 1, Len(template_symbol) - 2)
         \o <<"_", "i", "_">> \o to_string(index)
  ELSE template_symbol

\* while (std::getline(file, line)): the label of every "from to label" line
RECURSIVE collect_indices_from_graph(_, _, _)
collect_indices_from_graph(labels, k, indices) ==
  IF k > Len(labels) THEN indices
  ELSE LET e == extract_index(labels[k])
       IN collect_indices_from_graph(labels, k + 1,
            IF e.found THEN indices \cup {e.index} ELSE indices)

CountLine == << <<"C", "o", "u", "n", "t", ":">> >>

\* line.empty() || line[0] == '#'
SkippedLine(line) == line = <<>> \/ line[1][1] = "#"

\* the reading loop of expand_grammar_template
RECURSIVE ReadTemplateLines(_, _, _, _)
ReadTemplateLines(lines, k, reading_start, acc) ==
  IF k > Len(lines) THEN acc
  ELSE LET line == lines[k] IN
       IF SkippedLine(line) THEN ReadTemplateLines(lines, k + 1, reading_start, acc)
       ELSE IF line = CountLine THEN ReadTemplateLines(lines, k + 1, TRUE, acc)
       ELSE IF reading_start THEN [acc EXCEPT !.start_symbol = line]
       ELSE IF Len(line) < 3
       THEN IF Len(line) < 2
            THEN ReadTemplateLines(lines, k + 1, reading_start,
                   [acc EXCEPT !.epsilon_rules = Append(@, line)])
            ELSE ReadTemplateLines(lines, k + 1, reading_start,
                   [acc EXCEPT !.simple_rules = Append(@, line)])
       ELSE ReadTemplateLines(lines, k + 1, reading_start,
              [acc EXCEPT !.complex_rules = Append(@, SubSeq(line, 1, 3))])

\* for (int idx : indices): a std::set<int> is walked in ascending order
RECURSIVE IndicesInOrder(_)
IndicesInOrder(indices) ==
  IF indices = {} THEN <<>>
  ELSE LET m == CHOOSE x \in indices : \A y \in indices : x <= y
       IN <<m>> \o IndicesInOrder(indices \ {m})

\* one of the three writing loops: every rule, expanded or copied as it is
RECURSIVE ExpandRules(_, _, _)
ExpandRules(rules, k, indices) ==
  IF k > Len(rules) THEN <<>>
  ELSE LET rule == rules[k]
           is_template == \E p \in DOMAIN rule : is_template_symbol(rule[p])
           order == IndicesInOrder(indices)
           written ==
             IF is_template
             THEN [n \in DOMAIN order |->
                     [p \in DOMAIN rule |-> instantiate_template(rule[p], order[n])]]
             ELSE <<rule>>
       IN written \o ExpandRules(rules, k + 1, indices)

\* the symbols, rule lines and edge labels the explored files are made of
SymS == <<"S">>
SymX == <<"X">>
SymXi == <<"x", "i">>
SymStore == <<"s", "_", "i">>
SymLoad == <<"l", "_", "i">>
SymStore7 == <<"s", "_", "i", "_", "7">>
SymLoad7 == <<"l", "_", "i", "_", "7">>
SymStore9 == <<"s", "_", "i", "_", "9">>
SymStore07 == <<"s", "_", "i", "_", "0", "7">>

TemplateLineUniverse ==
  { <<SymS, SymStore, SymLoad>>, <<SymS, SymS, SymX>>, <<SymS, SymStore7, SymLoad7>>,
    <<SymStore, SymX>>, <<SymX, SymXi>>, <<SymS>>, <<SymStore>>,
    << <<"#">>, SymS >> }

LabelUniverse == {SymStore7, SymLoad7, SymStore9, SymStore07, SymX, SymStore}

RECURSIVE SeqsUpTo(_, _)
SeqsUpTo(S, n) ==
  IF n = 0 THEN {<<>>}
  ELSE LET shorter == SeqsUpTo(S, n - 1)
       IN shorter \cup {Append(q, x) : q \in {r \in shorter : Len(r) = n - 1}, x \in S}

TemplateFiles ==
  {rules \o <<CountLine, <<SymS>>>> : rules \in SeqsUpTo(TemplateLineUniverse, MaxLines)}

GraphLabelFiles == {SetToSeq(ls) : ls \in SubsetsUpTo(LabelUniverse, MaxLabels)}

InitExpand ==
  /\ grammar = GrammarOf({})
  /\ edges = {}
  /\ versionIdx = 1
  /\ pc = "idle"
  /\ M = EmptyCF
  /\ delta = EmptyCF
  /\ iterations = 0
  /\ converged = FALSE
  /\ warned = FALSE
  /\ prevM = EmptyCF
  /\ results = EmptyCF
  /\ exTemplate \in TemplateFiles
  /\ exGraph \in GraphLabelFiles
  /\ exIndices = {}
  /\ exRules = [epsilon_rules |-> <<>>, simple_rules |-> <<>>,
                complex_rules |-> <<>>, start_symbol |-> <<>>]
  /\ exOutput = <<>>
  /\ exPc = "collect"
  /\ CFIdle
  /\ LmsIdle
  /\ SelIdle
  /\ TwiceIdle
  /\ StepIdle
  /\ OwnIdle
  /\ StatsIdle
  /\ MergeIdle
  /\ QuiesceIdle
  /\ ClassifyIdle
  /\ LoadIdle

\* std::set<int> indices = collect_indices_from_graph(graph_path);
CollectIndices ==
  /\ exPc = "collect"
  /\ exIndices' = collect_indices_from_graph(exGraph, 1, {})
  /\ exPc' = IF exIndices' = {} THEN "copy" ELSE "read"
  /\ UNCHANGED <<exTemplate, exGraph, exRules, exOutput>>
  /\ UNCHANGED nonExpandVars

\* if (indices.empty()) { dst << src.rdbuf(); return; }
CopyTemplate ==
  /\ exPc = "copy"
  /\ exOutput' = exTemplate
  /\ exPc' = "done"
  /\ UNCHANGED <<exTemplate, exGraph, exIndices, exRules>>
  /\ UNCHANGED nonExpandVars

ReadTemplate ==
  /\ exPc = "read"
  /\ exRules' = ReadTemplateLines(exTemplate, 1, FALSE, exRules)
  /\ exPc' = "complex"
  /\ UNCHANGED <<exTemplate, exGraph, exIndices, exOutput>>
  /\ UNCHANGED nonExpandVars

ExpandComplex ==
  /\ exPc = "complex"
  /\ exOutput' = exOutput \o ExpandRules(exRules.complex_rules, 1, exIndices)
  /\ exPc' = "simple"
  /\ UNCHANGED <<exTemplate, exGraph, exIndices, exRules>>
  /\ UNCHANGED nonExpandVars

ExpandSimple ==
  /\ exPc = "simple"
  /\ exOutput' = exOutput \o ExpandRules(exRules.simple_rules, 1, exIndices)
  /\ exPc' = "epsilon"
  /\ UNCHANGED <<exTemplate, exGraph, exIndices, exRules>>
  /\ UNCHANGED nonExpandVars

ExpandEpsilon ==
  /\ exPc = "epsilon"
  /\ exOutput' = exOutput \o ExpandRules(exRules.epsilon_rules, 1, exIndices)
  /\ exPc' = "start"
  /\ UNCHANGED <<exTemplate, exGraph, exIndices, exRules>>
  /\ UNCHANGED nonExpandVars

\* output_file << "Count:\n"; output_file << start_symbol << "\n";
WriteStart ==
  /\ exPc = "start"
  /\ exOutput' = exOutput \o <<CountLine, exRules.start_symbol>>
  /\ exPc' = "done"
  /\ UNCHANGED <<exTemplate, exGraph, exIndices, exRules>>
  /\ UNCHANGED nonExpandVars

NextExpand ==
  \/ CollectIndices
  \/ CopyTemplate
  \/ ReadTemplate
  \/ ExpandComplex
  \/ ExpandSimple
  \/ ExpandEpsilon
  \/ WriteStart

SpecExpand == InitExpand /\ [][NextExpand]_vars

-----------------------------------------------------------------------------
(* Properties *)

ValueAt(cf, k) == IF k \in DOMAIN cf THEN cf[k] ELSE EmptyMatrix

\* the same pairs for every symbol, a missing key counting as an empty matrix
SamePairs(a, b) ==
  \A k \in (DOMAIN a) \cup (DOMAIN b) : ValueAt(a, k) = ValueAt(b, k)

\* C1 (soundness): every pair of the matrix an engine returned joins two
\* vertices between which some path spells a word derivable from the start
\* nonterminal, for each of the five engine versions as it returns.
Soundness ==
  pc = "done" => results[algo] \subseteq ReachableFromStart(grammar, edges)

\* all five versions have returned, each a non-empty result obtained through
\* products of a recursive grammar on a graph with a cycle
SoundnessWitness ==
  /\ pc = "done"
  /\ DOMAIN results = {Versions[i] : i \in DOMAIN Versions}
  /\ \A v \in DOMAIN results : Nvals(results[v]) >= 2
  /\ Len(grammar.complex_rules_) >= 1
  /\ Cardinality(edges) = MaxEdges

\* C2 (completeness): every pair of vertices joined by a path that spells a
\* word derivable from the start nonterminal is in the matrix each engine
\* returned.
Completeness ==
  pc = "done" => ReachableFromStart(grammar, edges) \subseteq results[algo]

\* C3 (engine equivalence): on the same grammar and graph the five engine
\* versions of the factory return the same set of pairs.
EngineEquivalence ==
  pc = "done" => \A v, w \in DOMAIN results : results[v] = results[w]

\* C4 (termination of the incremental loop): the loop of the incremental
\* engine is left through the exit taken when the front is empty, after at
\* most |nonterminals| * n^2 passes that found a non-empty front.
IncrementalLoopConverges ==
  (pc = "return" /\ EngineOf(algo) = "IncrementalMatrixAlgo") =>
    /\ converged
    /\ iterations - 1 <= Cardinality(nonterminals(grammar)) * matrix_size * matrix_size

\* C5 (difference is set subtraction): difference returns, for every key of
\* the receiver, the receiver's pairs that are not in the argument's matrix
\* of that key (all of them when the argument has no such key), so that
\* (A union B) minus B is contained in A.
DifferenceIsSetSubtraction ==
  /\ cfPc = "difference" =>
       \A k \in DOMAIN cfThis :
         ValueAt(cfResult, k) = cfThis[k] \ ValueAt(cfOther, k)
  /\ cfPc = "union_difference" =>
       \A k \in DOMAIN cfResult : cfResult[k] \subseteq ValueAt(cfThis, k)

\* C6 as stated (iteration cap): the loop of the incremental and of the
\* fully-optimized engine never runs more than 100 passes.
IterationCapAtHundred ==
  EngineOf(algo) # "matrix_base_algo_fixed" => iterations <= IterationCap

\* C6 (iteration cap), amended: the counter is compared with 100 after the
\* pass, so the loop of the incremental and of the fully-optimized engine
\* runs at most 101 passes; the warning is printed exactly when the 101st
\* pass ends with the loop not converged, and solve then returns the pairs
\* that M holds for the start nonterminal at that moment (none if M has no
\* entry for it).
IterationCapAfterPass ==
  EngineOf(algo) # "matrix_base_algo_fixed" =>
    /\ iterations <= IterationCap + 1
    /\ warned => (iterations = IterationCap + 1 /\ ~converged)
    /\ (pc \in {"return", "done"} /\ ~converged) => warned
    /\ (pc = "done" /\ warned) =>
         results[algo] = ValueAt(M, grammar.start_nonterm_)

\* the fully-optimized engine returned a non-empty result after the warning
IterationCapWitness ==
  /\ pc = "done"
  /\ algo = "FULLY_OPTIMIZED"
  /\ warned
  /\ iterations = IterationCap + 1
  /\ results[algo] # EmptyMatrix
  /\ "INCREMENTAL" \in DOMAIN results

\* C7 (sparsity gap): after every add on a set with factor b > 1, no two
\* members have b * (the smaller number of entries) >= the larger one.
SparsityGap ==
  (lmsPc = "added" /\ lmsB.num > lmsB.den) =>
    \A i, j \in DOMAIN lmsSet.matrices :
      i # j =>
        LET ni == Nvals(lmsSet.matrices[i])
            nj == Nvals(lmsSet.matrices[j])
        IN  lmsB.num * Min2(ni, nj) * Min2(ni, nj) < lmsB.den * Max2(ni, nj) * Max2(ni, nj)

\* an add that merged members and left at least two of them
SparsityGapWitness ==
  /\ lmsPc = "added"
  /\ lmsB.num > lmsB.den
  /\ Len(lmsSet.matrices) >= 2
  /\ lmsCount = MaxAdds
  /\ lmsCount > Len(lmsSet.matrices)

\* C8 (materialize): whatever adds came before, materialize returns the
\* union of all the matrices added so far (the empty matrix when nothing
\* was added) and leaves the members of the set as they were.
MaterializeIsUnion ==
  [][lmsPc' = "materialized" => (lmsOut' = lmsAdded /\ lmsSet' = lmsSet)]_vars

\* materialize folded at least two members, after adds that merged some
MaterializeWitness ==
  /\ lmsPc = "materialized"
  /\ Len(lmsSet.matrices) >= 2
  /\ lmsCount > Len(lmsSet.matrices)
  /\ lmsOut = lmsAdded
  /\ Nvals(lmsOut) >= 3

\* C9 (monotone growth): within a solve, after a pass of the loop every
\* M[A] contains what it held before the pass, and the total number of
\* entries of M has not decreased.
MonotoneGrowth ==
  /\ \A k \in DOMAIN prevM : k \in DOMAIN M /\ prevM[k] \subseteq M[k]
  /\ TotalNvals(prevM) <= TotalNvals(M)

\* a later pass of the incremental engine that enlarged a non-empty M
MonotoneGrowthWitness ==
  /\ pc = "loop"
  /\ algo = "INCREMENTAL"
  /\ iterations >= 2
  /\ TotalNvals(prevM) > 0
  /\ TotalNvals(M) > TotalNvals(prevM)

\* C10 as stated (selection table): below 500 vertices the incremental
\* engine with trivial checks and no lazy addition; from 500 to 9999 the
\* same with lazy addition exactly when there are more than 100 binary
\* rules; from 10000 the fully-optimized engine with b = sqrt(n).
SelectionTableAsStated ==
  selPc # "input" =>
    /\ selN < SmallGraphLimit =>
         /\ selChosen.engine = "IncrementalMatrixAlgo"
         /\ selChosen.use_trivial_checks
         /\ ~selChosen.use_lazy_add
    /\ (SmallGraphLimit <= selN /\ selN < AutomaticLargeLimit) =>
         /\ selChosen.use_trivial_checks
         /\ selChosen.use_lazy_add = (selRules > TemplateRuleLimit)
    /\ selN >= AutomaticLargeLimit =>
         /\ selChosen.engine = "FullyOptimizedAlgo"
         /\ selChosen.use_trivial_checks
         /\ selChosen.use_lazy_add
         /\ selChosen.b_factor = SqrtFactor(selN)

\* C10 (selection), amended: choose_algo_type takes the incremental engine
\* with trivial checks and no lazy addition below 500 vertices and the
\* fully-optimized engine with trivial checks, lazy addition and
\* b = sqrt(n) from 500 on, whatever the number of rules; solve_auto runs
\* the fully-optimized engine with nothing enabled below 1000 vertices,
\* incremental and trivial checks from 1000 to 9999, and lazy addition
\* with b = sqrt(n) as well from 10000, the number of rules (more than 100)
\* deciding only the use of templates.
SelectionAsCoded ==
  /\ selPc = "choose_algo_type" =>
       /\ selN < SmallGraphLimit =>
            /\ selChosen.type = "TRIVIAL_OPT"
            /\ selChosen.engine = "IncrementalMatrixAlgo"
            /\ selChosen.use_trivial_checks
            /\ ~selChosen.use_lazy_add
       /\ selN >= SmallGraphLimit =>
            /\ selChosen.type = "FULLY_OPTIMIZED"
            /\ selChosen.engine = "FullyOptimizedAlgo"
            /\ selChosen.use_trivial_checks
            /\ selChosen.use_lazy_add
            /\ selChosen.b_factor = SqrtFactor(selN)
  /\ selPc = "solve_auto" =>
       /\ selChosen.engine = "FullyOptimizedAlgo"
       /\ selChosen.use_incremental = (selN >= AutomaticSmallLimit)
       /\ selChosen.use_trivial_checks = (selN >= AutomaticSmallLimit)
       /\ selChosen.use_lazy_add = (selN >= AutomaticLargeLimit)
       /\ selChosen.use_templates =
            (selN >= AutomaticLargeLimit /\ selRules > TemplateRuleLimit)
       /\ selChosen.b_factor = SqrtFactor(selN)

\* a graph of exactly 500 vertices with few rules gets the fully-optimized
\* engine with lazy addition
SelectionWitness ==
  /\ selPc = "choose_algo_type"
  /\ selN = SmallGraphLimit
  /\ selRules = 0
  /\ selChosen.type = "FULLY_OPTIMIZED"
  /\ selChosen.use_lazy_add

StepOrderInsensitive ==
  stepKind \in {"order", "order_lazy"} => stepB = stepA

\* a pass in which two rules for the same nonterminal were applied in
\* another order than the source's and left at least two pairs for it
StepOrderWitness ==
  /\ stepKind = "order_lazy"
  /\ stepPass >= 2
  /\ Len(stepOrder.rules) = 2
  /\ stepOrder.rules # CanonicalOrder(grammar)
  /\ stepOrder.rules[1][1] = stepOrder.rules[2][1]
  /\ has(stepB.delta_tmp, stepOrder.rules[1][1])
  /\ Nvals(stepB.delta_tmp[stepOrder.rules[1][1]]) >= 2

\* C13 (trivial checks): with use_trivial_checks on and off the incremental
\* engine (and the lazy engine) has the same delta before the loop and the
\* same M and delta after every pass, hence returns the same pairs for the
\* start nonterminal.
TrivialChecksTransparent ==
  stepKind \in {"trivial", "trivial_lazy"} =>
    /\ SamePairs(stepB.M, stepA.M)
    /\ SamePairs(stepB.delta, stepA.delta)
    /\ SolveResult(stepB.M, grammar) = SolveResult(stepA.M, grammar)

\* a pass that went through the products of a complex rule while one
\* operand matrix of the rule was missing or empty
TrivialChecksWitness ==
  /\ stepKind = "trivial"
  /\ stepPass >= 2
  /\ Len(grammar.complex_rules_) >= 1
  /\ TotalNvals(stepB.delta_tmp) > 0
  /\ Nvals(SolveResult(stepB.M, grammar)) >= 2
  /\ \E k \in DOMAIN graph : Nvals(MxM(graph[k], graph[k])) = 0

\* C14 (lazy addition): from the same (M, delta) the lazy engine, with
\* use_lazy_add on or off, materializes exactly the delta_tmp the eager
\* incremental engine computes, pass after pass.
LazyAddTransparent ==
  stepKind \in {"lazy_on", "lazy_off"} =>
    /\ SamePairs(stepB.delta_tmp, stepA.delta_tmp)
    /\ SamePairs(stepB.M, stepA.M)
    /\ SamePairs(stepB.delta, stepA.delta)

\* a pass on a graph with b > 1 whose lazy delta_tmp holds at least three
\* pairs for one nonterminal
LazyAddWitness ==
  /\ stepKind = "lazy_on"
  /\ matrix_size > 1
  /\ stepPass >= 1
  /\ \E k \in DOMAIN stepB.delta_tmp : Nvals(stepB.delta_tmp[k]) >= 3
  /\ SamePairs(stepB.delta_tmp, stepA.delta_tmp)

\* C15 (unary rules): when an engine returns, for every rule A -> B with B
\* a nonterminal, M[A] holds every pair of M[B].
UnaryRulesClosed ==
  pc = "done" =>
    \A i \in DOMAIN grammar.simple_rules_ :
      grammar.simple_rules_[i][2] \in nonterminals(grammar) =>
        ValueAt(M, grammar.simple_rules_[i][2])
          \subseteq ValueAt(M, grammar.simple_rules_[i][1])

\* C16 as stated (scenario an_bn): on the grammar S -> a S1, S1 -> S b,
\* S -> a b and the path 0 -a-> 1 -a-> 2 -b-> 3 -b-> 4 every engine version
\* returns exactly the pairs (0,3) and (1,2).
AnBnResultAsStated ==
  (pc = "done" /\ grammar = ScenarioAnBn.grammar /\ edges = ScenarioAnBn.edges) =>
    results[algo] = {<<0, 3>>, <<1, 2>>}

\* C16 (scenario an_bn), amended: on that grammar and path every engine
\* version returns exactly the pairs (1,3), spanning a b, and (0,4),
\* spanning a a b b, which are the pairs joined by a path spelling a^n b^n.
AnBnResult ==
  (pc = "done" /\ grammar = ScenarioAnBn.grammar /\ edges = ScenarioAnBn.edges) =>
    /\ results[algo] = {<<1, 3>>, <<0, 4>>}
    /\ results[algo] = ReachableFromStart(grammar, edges)

\* the last of the five versions has returned on the an_bn scenario
AnBnWitness ==
  /\ pc = "done"
  /\ grammar = ScenarioAnBn.grammar
  /\ edges = ScenarioAnBn.edges
  /\ matrix_size = 5
  /\ DOMAIN results = {Versions[i] : i \in DOMAIN Versions}
  /\ \A v \in DOMAIN results : results[v] = {<<1, 3>>, <<0, 4>>}

\* C17 (empty language): whenever the closure leaves no pair for the start
\* nonterminal, be it a key of M with an empty matrix or no key of M at
\* all, every engine version returns, and what it returns is the empty
\* matrix.
EmptyLanguageReturnsEmpty ==
  /\ pc = "done" => algo \in DOMAIN results
  /\ (pc = "done" /\ ~has(M, grammar.start_nonterm_)) => results[algo] = EmptyMatrix

\* all five versions returned the empty matrix, the start nonterminal never
\* having become a key of M while another nonterminal holds pairs
EmptyLanguageWitness ==
  /\ pc = "done"
  /\ DOMAIN results = {Versions[i] : i \in DOMAIN Versions}
  /\ \A v \in DOMAIN results : results[v] = EmptyMatrix
  /\ grammar.start_nonterm_ \notin DOMAIN M
  /\ TotalNvals(M) > 0
  /\ converged

\* C18 (missing input): when the grammar file or the graph file does not
\* exist, solve(grammar_path, graph_path, type) stops in the constructors:
\* no engine starts, no closure is computed and no matrix is returned.
MissingInputIsFatal ==
  (~fsGrammar.exists \/ ~fsGraph.exists) => pc = "load"

\* C19 (equals): A.equals(B) is true exactly when, for every key that
\* holds at least one pair in A or in B, A and B hold the same pairs; a key
\* with an empty matrix counts as no key.  Hence equals is reflexive,
\* symmetric and transitive.
EqualsComparesPairSets ==
  cfPc = "equals" =>
    /\ cfResult.this_other =
         (\A k \in {x \in (DOMAIN cfThis) \cup (DOMAIN cfOther) :
                       ValueAt(cfThis, x) # {} \/ ValueAt(cfOther, x) # {}} :
            ValueAt(cfThis, k) = ValueAt(cfOther, k))
    /\ cfResult.this_this
    /\ cfResult.other_this = cfResult.this_other
    /\ (cfResult.this_other /\ cfResult.other_third) => cfResult.this_third

\* three maps with different key sets, equal pairwise: they differ only in
\* keys that hold an empty matrix, and share a matrix of two pairs
EqualsWitness ==
  /\ cfPc = "equals"
  /\ cfResult.this_other
  /\ cfResult.other_third
  /\ cfResult.this_third
  /\ DOMAIN cfThis # DOMAIN cfOther
  /\ DOMAIN cfOther # DOMAIN cfResult.third
  /\ \E k \in DOMAIN cfThis : Nvals(cfThis[k]) = 2

\* the rule lines of a grammar file: what stands before "Count:" and is
\* neither empty nor a comment
RuleLinesOf(file) ==
  LET stop == CHOOSE k \in 1..(Len(file) + 1) :
                /\ k = Len(file) + 1 \/ file[k] = CountLine
                /\ \A j \in 1..(k - 1) : file[j] # CountLine
  IN SelectSeq(SubSeq(file, 1, stop - 1), LAMBDA line : ~SkippedLine(line))

\* the concrete indices the labels of the graph show
ObservedIndices(labels) ==
  {n \in 0..99 : \E q \in DOMAIN labels : \E k \in 1..(Len(labels[q]) - 3) :
     /\ SubSeq(labels[q], Len(labels[q]) - k - 2, Len(labels[q]) - k) = <<"_", "i", "_">>
     /\ \A j \in (Len(labels[q]) - k + 1)..Len(labels[q]) : isdigit(labels[q][j])
     /\ stoi(SubSeq(labels[q], Len(labels[q]) - k + 1, Len(labels[q]))) = n}

HasTemplateSymbol(rule) == \E p \in DOMAIN rule : is_template_symbol(rule[p])

\* a rule with "_<index>" put behind each of its template symbols
InstanceOf(rule, index) ==
  [p \in DOMAIN rule |->
     IF is_template_symbol(rule[p]) THEN rule[p] \o <<"_">> \o to_string(index)
     ELSE rule[p]]

\* how often the line has to stand in the expanded grammar
ExpectedCopies(line, rules, indices) ==
  Cardinality({pi \in (DOMAIN rules) \X indices :
                 HasTemplateSymbol(rules[pi[1]]) /\ InstanceOf(rules[pi[1]], pi[2]) = line})
  + Cardinality({p \in DOMAIN rules : ~HasTemplateSymbol(rules[p]) /\ rules[p] = line})

CopiesIn(line, lines) == Cardinality({q \in DOMAIN lines : lines[q] = line})

\* C20 (template expansion): once expand_grammar_template has returned, the
\* grammar it wrote holds, for every rule of the template grammar with a
\* template symbol and every index seen in the graph, exactly one instance
\* in which each template symbol of the rule carries that index, and holds
\* every rule without a template symbol exactly once and unchanged; when the
\* graph shows an index it holds no other rule.
TemplateExpansion ==
  exPc = "done" =>
    LET rules == RuleLinesOf(exTemplate)
        written == RuleLinesOf(exOutput)
        indices == ObservedIndices(exGraph)
        expected == {InstanceOf(rules[p], n) :
                       p \in {r \in DOMAIN rules : HasTemplateSymbol(rules[r])},
                       n \in indices}
                    \cup {rules[p] : p \in {r \in DOMAIN rules : ~HasTemplateSymbol(rules[r])}}
    IN /\ \A line \in expected :
            CopiesIn(line, written) = ExpectedCopies(line, rules, indices)
       /\ indices # {} => \A q \in DOMAIN written : written[q] \in expected

\* reached: two indices seen in the graph, a rule with two template symbols
\* and a rule with none, and the expanded grammar written
TemplateExpansionWitness ==
  /\ exPc = "done"
  /\ Cardinality(exIndices) = 2
  /\ \E q \in DOMAIN exTemplate :
       Cardinality({p \in DOMAIN exTemplate[q] : is_template_symbol(exTemplate[q][p])}) = 2
  /\ \E q \in DOMAIN exTemplate :
       /\ exTemplate[q] # CountLine
       /\ Len(exTemplate[q]) = 3
       /\ ~HasTemplateSymbol(exTemplate[q])
  /\ Len(exOutput) = 5

\* the products of a CNF rule both of whose operands hold a pair
CnfProductsDue(Mx, d, rule) ==
  (IF has(d, rule[2]) /\ has(d, rule[3]) THEN MxM(d[rule[2]], d[rule[3]]) ELSE {})
    \cup (IF has(Mx, rule[2]) /\ has(d, rule[3]) THEN MxM(Mx[rule[2]], d[rule[3]]) ELSE {})
    \cup (IF has(d, rule[2]) /\ has(Mx, rule[3]) THEN MxM(d[rule[2]], Mx[rule[3]]) ELSE {})

AllCnfProductsIn(delta_tmp) ==
  \A i \in DOMAIN cnf_rules(grammar) :
    CnfProductsDue(M, delta, cnf_rules(grammar)[i])
      \subseteq ValueAt(delta_tmp, cnf_rules(grammar)[i][1])

\* C24 (independent CNF contributions): at the head of every pass of the
\* closure loop that finds delta non-empty, the delta_tmp the pass builds
\* holds, for every CNF rule A -> X Y, each of delta[X] * delta[Y],
\* M[X] * delta[Y] and delta[X] * M[Y] whose operands are both non-empty,
\* whichever of the other two were taken.  Stated for the copy of
\* IncrementalMatrixAlgo whose three cases form an else-if chain.
CnfCasesIndependent ==
  (pc = "loop" /\ TotalNvals(delta) # 0) =>
    AllCnfProductsIn(VariantDeltaTmp(config, grammar, graph, M, delta))

\* the same for IncrementalMatrixAlgo and FullyOptimizedAlgo of base_algo/,
\* where the three cases are separate if statements
CnfCasesIndependentSeparateIfs ==
  (pc = "loop" /\ TotalNvals(delta) # 0) =>
    CASE EngineOf(algo) = "IncrementalMatrixAlgo" ->
           AllCnfProductsIn(IncrementalDeltaTmp(config, grammar, graph, M, delta))
      [] EngineOf(algo) = "FullyOptimizedAlgo" ->
           AllCnfProductsIn(to_normal(FullLazyDeltaTmp(config, grammar, graph,
                                                       matrix_size, M, delta)))
      [] OTHER -> TRUE

\* C25 (the front holds only new pairs): at the head of every pass of the
\* loop of IncrementalMatrixAlgo that follows delta = delta_tmp \ M, no pair
\* of delta[A] is a pair of M[A], for every nonterminal A.
FrontDisjointFromM ==
  (pc = "loop" /\ EngineOf(algo) = "IncrementalMatrixAlgo" /\ iterations >= 1) =>
    \A A \in (DOMAIN delta) \cap (DOMAIN M) : delta[A] \cap M[A] = {}


-----------------------------------------------------------------------------
(* classify_rules, as each engine class runs it from its constructor *)

DiagnosticBucket(g, rule) ==
  LET Y_is_nonterminal == rule[2] \in nonterminals(g)
      Z_is_nonterminal == rule[3] \in nonterminals(g)
  IN  IF Y_is_nonterminal /\ Z_is_nonterminal THEN "cnf"
      ELSE IF Y_is_nonterminal /\ ~Z_is_nonterminal THEN "extended_left"
      ELSE IF ~Y_is_nonterminal /\ Z_is_nonterminal THEN "extended_right"
      ELSE "none"

ClassifyingEngines == {"IncrementalMatrixAlgo", "OptimizedExtendedCNFAlgo"}

InitClassify ==
  /\ grammar \in Grammars
  /\ edges = {}
  /\ versionIdx = 1
  /\ pc = "idle"
  /\ M = EmptyCF
  /\ delta = EmptyCF
  /\ iterations = 0
  /\ converged = FALSE
  /\ warned = FALSE
  /\ prevM = EmptyCF
  /\ results = EmptyCF
  /\ clsEngine \in ClassifyingEngines
  /\ clsBuckets = [cnf_rules |-> <<>>, extended_left_rules |-> <<>>,
                   extended_right_rules |-> <<>>, double_terminal_rules |-> <<>>]
  /\ clsPc = "new"
  /\ CFIdle
  /\ LmsIdle
  /\ SelIdle
  /\ TwiceIdle
  /\ StepIdle
  /\ OwnIdle
  /\ StatsIdle
  /\ MergeIdle
  /\ QuiesceIdle
  /\ ExpandIdle
  /\ LoadIdle

ClassifyIncremental ==
  /\ clsPc = "new"
  /\ clsEngine = "IncrementalMatrixAlgo"
  /\ clsBuckets' = [cnf_rules |-> cnf_rules(grammar),
                    extended_left_rules |-> extended_left_rules(grammar),
                    extended_right_rules |-> extended_right_rules(grammar),
                    double_terminal_rules |-> double_terminal_rules(grammar)]
  /\ clsPc' = "classified"
  /\ UNCHANGED clsEngine
  /\ UNCHANGED nonClassifyVars

ClassifyDiagnostic ==
  /\ clsPc = "new"
  /\ clsEngine = "OptimizedExtendedCNFAlgo"
  /\ clsBuckets' =
       [cnf_rules |->
          SelectSeq(grammar.complex_rules_, LAMBDA r : DiagnosticBucket(grammar, r) = "cnf"),
        extended_left_rules |->
          SelectSeq(grammar.complex_rules_, LAMBDA r : DiagnosticBucket(grammar, r) = "extended_left"),
        extended_right_rules |->
          SelectSeq(grammar.complex_rules_, LAMBDA r : DiagnosticBucket(grammar, r) = "extended_right"),
        double_terminal_rules |-> <<>>]
  /\ clsPc' = "classified"
  /\ UNCHANGED clsEngine
  /\ UNCHANGED nonClassifyVars

NextClassify == ClassifyIncremental \/ ClassifyDiagnostic

SpecClassify == InitClassify /\ [][NextClassify]_vars

OccurrencesIn(seq, rule) == Cardinality({i \in DOMAIN seq : seq[i] = rule})

IsNonterminalOf(g, sym) ==
  \/ sym = g.start_nonterm_
  \/ \E i \in DOMAIN g.epsilon_rules_ : g.epsilon_rules_[i] = sym
  \/ \E i \in DOMAIN g.simple_rules_ : g.simple_rules_[i][1] = sym
  \/ \E i \in DOMAIN g.complex_rules_ : g.complex_rules_[i][1] = sym

BucketDue(g, rule) ==
  CASE IsNonterminalOf(g, rule[2]) /\ IsNonterminalOf(g, rule[3]) -> "cnf_rules"
    [] IsNonterminalOf(g, rule[2]) /\ ~IsNonterminalOf(g, rule[3]) -> "extended_left_rules"
    [] ~IsNonterminalOf(g, rule[2]) /\ IsNonterminalOf(g, rule[3]) -> "extended_right_rules"
    [] OTHER -> "double_terminal_rules"

\* C26: once classify_rules has returned, every rule of complex_rules_ is in
\* exactly one of cnf_rules, extended_left_rules, extended_right_rules and
\* double_terminal_rules, the one its two right-hand symbols' being
\* nonterminals or not selects; no rule is dropped.
ClassificationPartitions ==
  clsPc = "classified" =>
    \A i \in DOMAIN grammar.complex_rules_ :
      \A b \in DOMAIN clsBuckets :
        OccurrencesIn(clsBuckets[b], grammar.complex_rules_[i])
          = (IF b = BucketDue(grammar, grammar.complex_rules_[i]) THEN 1 ELSE 0)

\* The same, of the classify_rules of IncrementalMatrixAlgo alone.
ClassificationPartitionsIncremental ==
  (clsPc = "classified" /\ clsEngine = "IncrementalMatrixAlgo") =>
    \A i \in DOMAIN grammar.complex_rules_ :
      \A b \in DOMAIN clsBuckets :
        OccurrencesIn(clsBuckets[b], grammar.complex_rules_[i])
          = (IF b = BucketDue(grammar, grammar.complex_rules_[i]) THEN 1 ELSE 0)


-----------------------------------------------------------------------------
(* matrix_base_algo_fixed, the version whose loop compares the sums of nvals *)

FixedRuleStep(g, G, Mx, res, rule) ==
  LET X == rule[1]
      Y == rule[2]
      Z == rule[3]
  IN  CASE Bucket(g, rule) = "cnf" ->
             IF has(Mx, Y) /\ has(Mx, Z)
               THEN AddProduct(res, X, MxM(Mx[Y], Mx[Z])) ELSE res
        [] Bucket(g, rule) = "extended_left" ->
             IF has(Mx, Y) /\ Z \in DOMAIN G
               THEN AddProduct(res, X, MxM(Mx[Y], G[Z])) ELSE res
        [] Bucket(g, rule) = "extended_right" ->
             IF Y \in DOMAIN G /\ has(Mx, Z)
               THEN AddProduct(res, X, MxM(G[Y], Mx[Z])) ELSE res
        [] OTHER ->
             IF Y \in DOMAIN G /\ Z \in DOMAIN G
               THEN AddProduct(res, X, MxM(G[Y], G[Z])) ELSE res

\* the loops over cnf_rules, extended_left_rules and extended_right_rules
RECURSIVE apply_rules(_, _, _, _, _)
apply_rules(g, G, Mx, rules, res) ==
  IF rules = <<>> THEN res
  ELSE apply_rules(g, G, Mx, Tail(rules), FixedRuleStep(g, G, Mx, res, Head(rules)))

RECURSIVE apply_simple_rules(_, _, _, _)
apply_simple_rules(g, Mx, rules, res) ==
  IF rules = <<>> THEN res
  ELSE LET A == Head(rules)[1]
           B == Head(rules)[2]
       IN  apply_simple_rules(g, Mx, Tail(rules),
             IF B \in nonterminals(g) /\ has(Mx, B) THEN OrInto(res, A, Mx[B]) ELSE res)

\* epsilon rules, then the simple rules once (from the graph and from M),
\* then the double-terminal rules, which read the graph alone
FixedInitM(g, G, n) ==
  apply_rules(g, G, EmptyCF, double_terminal_rules(g),
    VariantInitSimple(g.simple_rules_, G, InitEpsilon(g.epsilon_rules_, n, EmptyCF)))

\* M_new of one pass, then M = M | M_new label by label
FixedNextM(g, G, Mx) ==
  LET M_new == apply_simple_rules(g, Mx, g.simple_rules_,
                 apply_rules(g, G, Mx,
                   cnf_rules(g) \o extended_left_rules(g) \o extended_right_rules(g),
                   EmptyCF))
  IN  union_with(Mx, M_new)

InitQuiesce ==
  /\ grammar \in Grammars
  /\ edges \in Graphs
  /\ versionIdx = 1
  /\ pc = "start"
  /\ M = EmptyCF
  /\ delta = EmptyCF
  /\ iterations = 0
  /\ converged = FALSE
  /\ warned = FALSE
  /\ prevM = EmptyCF
  /\ results = EmptyCF
  /\ changedBy \in {"equals", "nvals"}
  /\ CFIdle
  /\ LmsIdle
  /\ SelIdle
  /\ TwiceIdle
  /\ StepIdle
  /\ OwnIdle
  /\ StatsIdle
  /\ MergeIdle
  /\ ClassifyIdle
  /\ ExpandIdle
  /\ LoadIdle

QuiesceStart ==
  /\ pc = "start"
  /\ M' = IF changedBy = "equals" THEN BaseInitM(grammar, graph, matrix_size)
                                  ELSE FixedInitM(grammar, graph, matrix_size)
  /\ prevM' = M'
  /\ iterations' = 0
  /\ pc' = "loop"
  /\ UNCHANGED <<grammar, edges, versionIdx, delta, converged, warned, results>>
  /\ UNCHANGED nonSolveVars

\* changed = !M.equals(*M_snapshot)
EqualsIterate ==
  /\ pc = "loop"
  /\ changedBy = "equals"
  /\ iterations' = iterations + 1
  /\ M' = BaseNextM(grammar, graph, M)
  /\ prevM' = M
  /\ converged' = equals(M', M)
  /\ warned' = TooManyIterations(iterations')
  /\ pc' = IF converged' \/ warned' THEN "return" ELSE "loop"
  /\ UNCHANGED <<grammar, edges, versionIdx, delta, results>>
  /\ UNCHANGED nonSolveVars

\* changed = false; ... if (new_nvals > old_nvals) changed = true
NvalsIterate ==
  /\ pc = "loop"
  /\ changedBy = "nvals"
  /\ iterations' = iterations + 1
  /\ M' = FixedNextM(grammar, graph, M)
  /\ prevM' = M
  /\ converged' = ~(TotalNvals(M') > TotalNvals(M))
  /\ warned' = TooManyIterations(iterations')
  /\ pc' = IF converged' \/ warned' THEN "return" ELSE "loop"
  /\ UNCHANGED <<grammar, edges, versionIdx, delta, results>>
  /\ UNCHANGED nonSolveVars

QuiesceReturn ==
  /\ pc = "return"
  /\ results' = [k \in (DOMAIN results) \cup {algo} |->
                   IF k = algo THEN SolveResult(M, grammar) ELSE results[k]]
  /\ pc' = "done"
  /\ UNCHANGED <<grammar, edges, versionIdx, M, delta, iterations, converged,
                 warned, prevM>>
  /\ UNCHANGED nonSolveVars

NextQuiesce ==
  \/ QuiesceStart
  \/ EqualsIterate
  \/ NvalsIterate
  \/ QuiesceReturn

SpecQuiesce == InitQuiesce /\ [][NextQuiesce]_vars

\* the pairs under every label, an absent label holding none
PairsUnchanged(before, after) ==
  \A k \in (DOMAIN before) \cup (DOMAIN after) :
    (IF k \in DOMAIN before THEN before[k] ELSE {})
      = (IF k \in DOMAIN after THEN after[k] ELSE {})

\* C27: after every pass of the base closure loop, the sum of nvals over M is
\* what it was before the pass iff M equals the snapshot taken before the pass,
\* and both agree with the pair sets being unchanged; so the loop leaves
\* through its convergence exit at the same pass whichever test it runs.
QuiescenceTestsAgree ==
  (pc \in {"loop", "return"} /\ iterations >= 1) =>
    /\ (TotalNvals(M) = TotalNvals(prevM)) <=> equals(M, prevM)
    /\ equals(M, prevM) <=> PairsUnchanged(prevM, M)
    /\ converged <=> PairsUnchanged(prevM, M)

QuiescenceTestsAgreeWitness ==
  /\ changedBy = "nvals"
  /\ pc = "return"
  /\ converged
  /\ iterations >= 2
  /\ TotalNvals(M) > 0


-----------------------------------------------------------------------------
(* LazyMatrixSet::add with maintain_invariant taken one merge at a time *)

\* the matrices handed to add: those with entries in row 0 alone
MergePool == SUBSET ({0} \X Vertices)

InitMerge ==
  /\ lmsB \in LmsFactors
  /\ lmsOrdered \in BOOLEAN
  /\ lmsSet = EmptyLMS
  /\ lmsAdded = EmptyMatrix
  /\ lmsCount = 0
  /\ lmsOut = EmptyMatrix
  /\ lmsPc = "new"
  /\ sizeBefore = 0
  /\ merges = 0
  /\ SolveIdle
  /\ CFIdle
  /\ SelIdle
  /\ TwiceIdle
  /\ StepIdle
  /\ OwnIdle
  /\ StatsIdle
  /\ QuiesceIdle
  /\ ClassifyIdle
  /\ ExpandIdle
  /\ LoadIdle

\* add of a matrix without entries: returns at once
AddNothing ==
  /\ lmsPc \in {"new", "added"}
  /\ lmsCount < MaxAdds
  /\ \E new_matrix \in MergePool :
       /\ Nvals(new_matrix) = 0
       /\ lmsAdded' = EWiseAdd(lmsAdded, new_matrix)
  /\ sizeBefore' = Len(lmsSet.matrices)
  /\ merges' = 0
  /\ lmsCount' = lmsCount + 1
  /\ lmsPc' = "added"
  /\ UNCHANGED <<lmsB, lmsOrdered, lmsSet, lmsOut>>
  /\ UNCHANGED nonMergeVars

\* add up to the call of maintain_invariant, and its "size <= 1" return
AddPush ==
  /\ lmsPc \in {"new", "added"}
  /\ lmsCount < MaxAdds
  /\ \E new_matrix \in MergePool :
       /\ Nvals(new_matrix) # 0
       /\ lmsSet' = [matrices    |-> Append(lmsSet.matrices, new_matrix),
                     nvals_cache |-> Append(lmsSet.nvals_cache, Nvals(new_matrix))]
       /\ lmsAdded' = EWiseAdd(lmsAdded, new_matrix)
  /\ sizeBefore' = Len(lmsSet.matrices)
  /\ merges' = 0
  /\ lmsCount' = lmsCount + 1
  /\ lmsPc' = IF Len(lmsSet'.matrices) <= 1 THEN "added" ELSE "maintain_invariant"
  /\ UNCHANGED <<lmsB, lmsOrdered, lmsOut>>
  /\ UNCHANGED nonMergeVars

\* one pass of the while loop that finds a violating pair and merges it
MergeStep ==
  /\ lmsPc = "maintain_invariant"
  /\ LET V == IF lmsOrdered THEN OrderedViolatingPairs(lmsSet, lmsB)
                            ELSE ViolatingPairs(lmsSet, lmsB)
     IN  /\ V # {}
         /\ lmsSet' = MergePair(lmsSet, FirstPair(V)[1], FirstPair(V)[2])
  /\ merges' = merges + 1
  /\ UNCHANGED <<lmsB, lmsOrdered, lmsAdded, lmsCount, lmsOut, lmsPc, sizeBefore>>
  /\ UNCHANGED nonMergeVars

\* the pass that finds no violating pair, and the sort after the loop
MergeDone ==
  /\ lmsPc = "maintain_invariant"
  /\ LET V == IF lmsOrdered THEN OrderedViolatingPairs(lmsSet, lmsB)
                            ELSE ViolatingPairs(lmsSet, lmsB)
     IN  V = {}
  /\ lmsSet' = sort_by_nvals(lmsSet)
  /\ lmsPc' = "added"
  /\ UNCHANGED <<lmsB, lmsOrdered, lmsAdded, lmsCount, lmsOut, sizeBefore, merges>>
  /\ UNCHANGED nonMergeVars

NextMerge ==
  \/ AddNothing
  \/ AddPush
  \/ MergeStep
  \/ MergeDone

\* add runs maintain_invariant to its end before it returns
SpecMerge ==
  InitMerge /\ [][NextMerge]_vars /\ WF_vars(MergeStep) /\ WF_vars(MergeDone)

\* C28: a running maintain_invariant comes to its end; every merge lowers
\* matrices.size() by exactly one; the merges of one call are no more than
\* the members the set had when add was entered, and after the add the set
\* has at most one member more than before it.
MergingTerminates ==
  /\ (lmsPc = "maintain_invariant") ~> (lmsPc = "added")
  /\ [][merges' = merges + 1 =>
          Len(lmsSet'.matrices) = Len(lmsSet.matrices) - 1]_vars
  /\ [](/\ merges <= sizeBefore
        /\ Len(lmsSet.matrices) <= sizeBefore + 1)

MergingTerminatesWitness ==
  /\ lmsPc = "added"
  /\ merges >= 2
  /\ Len(lmsSet.matrices) = sizeBefore - 1


\* C30: after every add (its merges and the final sort included) matrices
\* and nvals_cache have the same length, nvals_cache[i] is the number of
\* TRUE entries of matrices[i], no member is empty, and the members are in
\* non-decreasing order of nvals.
LmsCacheConsistent ==
  lmsPc = "added" =>
    /\ Len(lmsSet.matrices) = Len(lmsSet.nvals_cache)
    /\ \A i \in DOMAIN lmsSet.matrices :
         /\ lmsSet.nvals_cache[i] = Cardinality(lmsSet.matrices[i])
         /\ lmsSet.matrices[i] # {}
    /\ \A i, j \in DOMAIN lmsSet.matrices :
         i < j => Cardinality(lmsSet.matrices[i]) <= Cardinality(lmsSet.matrices[j])

\* after the third add the set holds two members of different nvals, the
\* smaller first, which together hold everything that was added
LmsCacheConsistentWitness ==
  /\ lmsPc = "added"
  /\ lmsCount = 3
  /\ Len(lmsSet.matrices) = 2
  /\ lmsSet.nvals_cache[1] < lmsSet.nvals_cache[2]
  /\ lmsSet.matrices[1] \cup lmsSet.matrices[2] = lmsAdded
  /\ Cardinality(lmsAdded) = 4


-----------------------------------------------------------------------------
(* stats.skipped_multiplications: the products the trivial check leaves out *)

\* if (is_empty(A) || is_empty(B)) { stats.skipped_multiplications++; ... }
Skipped(cfg, A, B) == IF is_empty(cfg, A) \/ is_empty(cfg, B) THEN 1 ELSE 0

\* the increments one rule causes in one pass (in the initialisation, for a
\* double-terminal rule); IncrementalMatrixAlgo leaves an extended rule with
\* "continue" at its first increment
RuleSkips(engine, cfg, g, G, Mx, d, rule) ==
  LET Y == rule[2]
      Z == rule[3]
  IN  CASE Bucket(g, rule) = "cnf" ->
             (IF has(d, Y) /\ has(d, Z) THEN Skipped(cfg, d[Y], d[Z]) ELSE 0)
             + (IF has(Mx, Y) /\ has(d, Z) THEN Skipped(cfg, Mx[Y], d[Z]) ELSE 0)
             + (IF has(d, Y) /\ has(Mx, Z) THEN Skipped(cfg, d[Y], Mx[Z]) ELSE 0)
        [] Bucket(g, rule) = "extended_left" ->
             IF Z \notin DOMAIN G THEN 0
             ELSE IF engine = "IncrementalMatrixAlgo"
               THEN IF has(d, Y) /\ is_empty(cfg, d[Y]) THEN 1
                    ELSE IF has(Mx, Y) /\ is_empty(cfg, Mx[Y]) THEN 1 ELSE 0
               ELSE (IF has(d, Y) THEN Skipped(cfg, d[Y], G[Z]) ELSE 0)
                    + (IF has(Mx, Y) THEN Skipped(cfg, Mx[Y], G[Z]) ELSE 0)
        [] Bucket(g, rule) = "extended_right" ->
             IF Y \notin DOMAIN G THEN 0
             ELSE IF engine = "IncrementalMatrixAlgo"
               THEN IF has(d, Z) /\ is_empty(cfg, d[Z]) THEN 1
                    ELSE IF has(Mx, Z) /\ is_empty(cfg, Mx[Z]) THEN 1 ELSE 0
               ELSE (IF has(d, Z) THEN Skipped(cfg, G[Y], d[Z]) ELSE 0)
                    + (IF has(Mx, Z) THEN Skipped(cfg, G[Y], Mx[Z]) ELSE 0)
        [] OTHER ->
             IF Y \notin DOMAIN G \/ Z \notin DOMAIN G THEN 0
             ELSE Skipped(cfg, G[Y], G[Z])

RECURSIVE SkipsOver(_, _, _, _, _, _, _)
SkipsOver(engine, cfg, g, G, Mx, d, rules) ==
  IF rules = <<>> THEN 0
  ELSE RuleSkips(engine, cfg, g, G, Mx, d, Head(rules))
       + SkipsOver(engine, cfg, g, G, Mx, d, Tail(rules))

\* the engines that count skips: IncrementalMatrixAlgo with use_trivial_checks
\* off and on, and FullyOptimizedAlgo
SkipVersions == {"INCREMENTAL", "TRIVIAL_OPT", "FULLY_OPTIMIZED"}

InitSkip ==
  /\ grammar \in Grammars
  /\ edges \in Graphs
  /\ versionIdx \in {i \in DOMAIN Versions : Versions[i] \in SkipVersions}
  /\ pc = "start"
  /\ M = EmptyCF
  /\ delta = EmptyCF
  /\ iterations = 0
  /\ converged = FALSE
  /\ warned = FALSE
  /\ prevM = EmptyCF
  /\ results = EmptyCF
  /\ skipped_multiplications = 0
  /\ CFIdle
  /\ LmsIdle
  /\ SelIdle
  /\ TwiceIdle
  /\ StepIdle
  /\ OwnIdle
  /\ MergeIdle
  /\ QuiesceIdle
  /\ ClassifyIdle
  /\ ExpandIdle
  /\ LoadIdle

\* solve up to the main loop; the double-terminal rules are the only
\* products of the initialisation
SkipStart ==
  /\ pc = "start"
  /\ M' = EmptyCF
  /\ delta' = IF EngineOf(algo) = "IncrementalMatrixAlgo"
                THEN IncrementalInitDelta(config, grammar, graph, matrix_size)
                ELSE FullInitDelta(config, grammar, graph, matrix_size)
  /\ skipped_multiplications' =
       skipped_multiplications
       + SkipsOver(EngineOf(algo), config, grammar, graph, EmptyCF, EmptyCF,
                   double_terminal_rules(grammar))
  /\ prevM' = M'
  /\ iterations' = 0
  /\ pc' = "loop"
  /\ UNCHANGED <<grammar, edges, versionIdx, converged, warned, results>>
  /\ UNCHANGED nonStatsVars

SkipConverged ==
  /\ pc = "loop"
  /\ TotalNvals(delta) = 0
  /\ iterations' = iterations + 1
  /\ converged' = TRUE
  /\ pc' = "return"
  /\ UNCHANGED <<grammar, edges, versionIdx, M, delta, warned, prevM, results>>
  /\ UNCHANGED skipped_multiplications
  /\ UNCHANGED nonStatsVars

SkipIterate ==
  /\ pc = "loop"
  /\ TotalNvals(delta) # 0
  /\ iterations' = iterations + 1
  /\ M' = union_with(M, delta)
  /\ delta' = IF EngineOf(algo) = "IncrementalMatrixAlgo"
                THEN IncrementalNextDelta(config, grammar, graph, M, delta)
                ELSE FullNextDelta(config, grammar, graph, matrix_size, M, delta)
  /\ skipped_multiplications' =
       skipped_multiplications
       + SkipsOver(EngineOf(algo), config, grammar, graph, M, delta,
                   cnf_rules(grammar) \o extended_left_rules(grammar)
                     \o extended_right_rules(grammar))
  /\ prevM' = M
  /\ warned' = TooManyIterations(iterations')
  /\ pc' = IF warned' THEN "return" ELSE "loop"
  /\ UNCHANGED <<grammar, edges, versionIdx, converged, results>>
  /\ UNCHANGED nonStatsVars

SkipReturn ==
  /\ pc = "return"
  /\ results' = [k \in (DOMAIN results) \cup {algo} |->
                   IF k = algo THEN SolveResult(M, grammar) ELSE results[k]]
  /\ pc' = "done"
  /\ UNCHANGED <<grammar, edges, versionIdx, M, delta, iterations, converged,
                 warned, prevM>>
  /\ UNCHANGED skipped_multiplications
  /\ UNCHANGED nonStatsVars

NextSkip ==
  \/ SkipStart
  \/ SkipConverged
  \/ SkipIterate
  \/ SkipReturn

SpecSkip == InitSkip /\ [][NextSkip]_vars

\* C29: on a graph built by the loader, stats.skipped_multiplications is 0
\* all through solve, with use_trivial_checks on or off.
NothingSkipped == skipped_multiplications = 0

\* a solve with use_trivial_checks on that multiplied in two passes and
\* returned a non-empty result
NothingSkippedWitness ==
  /\ pc = "done"
  /\ config.use_trivial_checks
  /\ iterations >= 3
  /\ cnf_rules(grammar) # <<>>
  /\ algo \in DOMAIN results
  /\ results[algo] # {}


-----------------------------------------------------------------------------
(* Ownership of cuBool_Matrix handles over the life of one engine: the      *)
(* graph is loaded, the engine is built from objects (as the factory does)  *)
(* or from file paths (as the tests do), solve runs and returns, the engine *)
(* and then the caller's graph are destroyed.  A handle is an address; the  *)
(* allocator gives out the next unused address or one that was freed.  The  *)
(* slots of M and delta other than M[start] and the temporaries of the      *)
(* passes are allocated and freed inside solve and carry no address here.   *)

\* what the allocator may return for the next matrix
Candidates(lv, at) == ((DOMAIN at) \ lv) \cup {Len(at) + 1}

\* the matrix at handle h now holds P
Place(at, h, P) == [x \in 1..(IF h > Len(at) THEN h ELSE Len(at)) |->
                      IF x = h THEN P ELSE at[x]]

\* handles base + 1, base + 2, ... for the labels of G, in map order
FreshHandles(G, base) ==
  LET order == SetToSeq(DOMAIN G)
  IN  [l \in DOMAIN G |-> base + (CHOOSE i \in DOMAIN order : order[i] = l)]

\* the matrices of G stored at the handles hs
PlaceAll(at, G, hs) ==
  [x \in 1..(Len(at) + Cardinality(DOMAIN G)) |->
     IF \E l \in DOMAIN G : hs[l] = x
       THEN G[CHOOSE l \in DOMAIN G : hs[l] = x]
       ELSE at[x]]

HandlesOf(hs) == {hs[l] : l \in DOMAIN hs}

\* the labels whose graph matrix the initialisation of solve reads
LabelsReadAtStart(g, hs) ==
  ({g.simple_rules_[i][2] : i \in DOMAIN g.simple_rules_} \cap (DOMAIN hs))
    \cup UNION {{r[2], r[3]} : r \in {x \in {double_terminal_rules(g)[i] :
                                               i \in DOMAIN double_terminal_rules(g)} :
                                        x[2] \in DOMAIN hs /\ x[3] \in DOMAIN hs}}

\* the labels whose graph matrix one pass of the loop reads
LabelsReadInPass(g, hs, Mx, d) ==
  {r[3] : r \in {x \in {extended_left_rules(g)[i] : i \in DOMAIN extended_left_rules(g)} :
                   x[3] \in DOMAIN hs /\ (has(d, x[2]) \/ has(Mx, x[2]))}}
    \cup {r[2] : r \in {x \in {extended_right_rules(g)[i] : i \in DOMAIN extended_right_rules(g)} :
                          x[2] \in DOMAIN hs /\ (has(d, x[3]) \/ has(Mx, x[3]))}}

\* what a matrix operation finds at handle h: the matrix there if h is live;
\* if h was freed, what the freed storage still holds, or a matrix the
\* running solve has put there since (an empty one, a slot of M or delta)
ReadOutcomes(h, Mx, d) ==
  IF h \in live THEN {pairsAt[h]}
  ELSE {pairsAt[h], EmptyMatrix} \cup {Mx[k] : k \in DOMAIN Mx} \cup {d[k] : k \in DOMAIN d}

\* the graphs the engine may see through its handles when it reads `reads`
SeenGraphs(reads, Mx, d) ==
  {G \in [DOMAIN algoGraph -> SUBSET (Vertices \X Vertices)] :
     \A l \in DOMAIN algoGraph :
       IF l \in reads THEN G[l] \in ReadOutcomes(algoGraph[l], Mx, d)
                      ELSE G[l] = pairsAt[algoGraph[l]]}

ReadsFreed(reads) == \E l \in reads : algoGraph[l] \notin live

\* one version of each engine class
OwnVersions == {"BASE", "INCREMENTAL", "FULLY_OPTIMIZED"}

InitOwn ==
  /\ grammar \in Grammars
  /\ edges \in Graphs
  /\ versionIdx \in {i \in DOMAIN Versions : Versions[i] \in OwnVersions}
  /\ pc = "idle"
  /\ M = EmptyCF
  /\ delta = EmptyCF
  /\ iterations = 0
  /\ converged = FALSE
  /\ warned = FALSE
  /\ prevM = EmptyCF
  /\ results = EmptyCF
  /\ ownHow \in {"objects", "paths"}
  /\ ownPc = "new"
  /\ live = {}
  /\ pairsAt = <<>>
  /\ loadedGraph = <<>>
  /\ algoGraph = <<>>
  /\ graphBefore = <<>>
  /\ mStartAt = 0
  /\ resultAt = 0
  /\ doubleFree = FALSE
  /\ readFreed = FALSE
  /\ CFIdle
  /\ LmsIdle
  /\ SelIdle
  /\ TwiceIdle
  /\ StepIdle
  /\ StatsIdle
  /\ MergeIdle
  /\ QuiesceIdle
  /\ ClassifyIdle
  /\ ExpandIdle
  /\ LoadIdle

\* label_decomposed_graph graph(graph_path);
LoadGraph ==
  /\ ownPc = "new"
  /\ ownHow = "objects"
  /\ loadedGraph' = FreshHandles(graph, Len(pairsAt))
  /\ pairsAt' = PlaceAll(pairsAt, graph, loadedGraph')
  /\ live' = live \cup HandlesOf(loadedGraph')
  /\ ownPc' = "loaded"
  /\ UNCHANGED <<ownHow, algoGraph, graphBefore, mStartAt, resultAt, doubleFree, readFreed>>
  /\ UNCHANGED solveVars
  /\ UNCHANGED nonOwnVars

\* Algo algo(grammar, graph, config): graph(g) duplicates every matrix
ConstructFromObjects ==
  /\ ownPc = "loaded"
  /\ algoGraph' = FreshHandles(graph, Len(pairsAt))
  /\ pairsAt' = PlaceAll(pairsAt, [l \in DOMAIN loadedGraph |-> pairsAt[loadedGraph[l]]],
                         algoGraph')
  /\ live' = live \cup HandlesOf(algoGraph')
  /\ ownPc' = "constructed"
  /\ pc' = "start"
  /\ UNCHANGED <<ownHow, loadedGraph, graphBefore, mStartAt, resultAt, doubleFree, readFreed>>
  /\ UNCHANGED <<grammar, edges, versionIdx, M, delta, iterations, converged, warned,
                 prevM, results>>
  /\ UNCHANGED nonOwnVars

\* Algo algo(grammar_path, graph_path): graph = label_decomposed_graph(graph_path);
\* the assignment copies the map of handles member by member, then the
\* temporary is destroyed and frees every matrix it built
ConstructFromPaths ==
  /\ ownPc = "new"
  /\ ownHow = "paths"
  /\ algoGraph' = FreshHandles(graph, Len(pairsAt))
  /\ pairsAt' = PlaceAll(pairsAt, graph, algoGraph')
  /\ live' = live
  /\ ownPc' = "constructed"
  /\ pc' = "start"
  /\ UNCHANGED <<ownHow, loadedGraph, graphBefore, mStartAt, resultAt, doubleFree, readFreed>>
  /\ UNCHANGED <<grammar, edges, versionIdx, M, delta, iterations, converged, warned,
                 prevM, results>>
  /\ UNCHANGED nonOwnVars

\* solve up to its main loop
OwnStart ==
  /\ ownPc = "constructed"
  /\ pc = "start"
  /\ \E G \in SeenGraphs(LabelsReadAtStart(grammar, algoGraph), EmptyCF, EmptyCF) :
       /\ M' = IF EngineOf(algo) = "matrix_base_algo_fixed"
                 THEN BaseInitM(grammar, G, matrix_size) ELSE EmptyCF
       /\ delta' = CASE EngineOf(algo) = "IncrementalMatrixAlgo" ->
                          IncrementalInitDelta(config, grammar, G, matrix_size)
                     [] EngineOf(algo) = "FullyOptimizedAlgo" ->
                          FullInitDelta(config, grammar, G, matrix_size)
                     [] OTHER -> EmptyCF
  /\ readFreed' = (readFreed \/ ReadsFreed(LabelsReadAtStart(grammar, algoGraph)))
  /\ graphBefore' = [l \in DOMAIN algoGraph |-> pairsAt[algoGraph[l]]]
  /\ prevM' = M'
  /\ iterations' = 0
  /\ pc' = "loop"
  /\ UNCHANGED <<grammar, edges, versionIdx, converged, warned, results>>
  /\ UNCHANGED <<ownHow, ownPc, live, pairsAt, loadedGraph, algoGraph, mStartAt, resultAt,
                 doubleFree>>
  /\ UNCHANGED nonOwnVars

\* the pass of the incremental engines that finds delta empty
OwnConverged ==
  /\ pc = "loop"
  /\ ownPc = "constructed"
  /\ EngineOf(algo) # "matrix_base_algo_fixed"
  /\ TotalNvals(delta) = 0
  /\ iterations' = iterations + 1
  /\ converged' = TRUE
  /\ pc' = "return"
  /\ UNCHANGED <<grammar, edges, versionIdx, M, delta, warned, prevM, results>>
  /\ UNCHANGED ownVars
  /\ UNCHANGED nonOwnVars

\* one full pass of the loop of solve
OwnPass ==
  /\ pc = "loop"
  /\ ownPc = "constructed"
  /\ EngineOf(algo) = "matrix_base_algo_fixed" \/ TotalNvals(delta) # 0
  /\ iterations' = iterations + 1
  /\ \E G \in SeenGraphs(LabelsReadInPass(grammar, algoGraph, M, delta), M, delta) :
       /\ M' = IF EngineOf(algo) = "matrix_base_algo_fixed"
                 THEN BaseNextM(grammar, G, M) ELSE union_with(M, delta)
       /\ delta' = CASE EngineOf(algo) = "IncrementalMatrixAlgo" ->
                          IncrementalNextDelta(config, grammar, G, M, delta)
                     [] EngineOf(algo) = "FullyOptimizedAlgo" ->
                          FullNextDelta(config, grammar, G, matrix_size, M, delta)
                     [] OTHER -> delta
  /\ readFreed' = (readFreed \/ ReadsFreed(LabelsReadInPass(grammar, algoGraph, M, delta)))
  /\ prevM' = M
  /\ converged' = IF EngineOf(algo) = "matrix_base_algo_fixed" THEN equals(M', M)
                                                                ELSE converged
  /\ warned' = TooManyIterations(iterations')
  /\ pc' = IF converged' \/ warned' THEN "return" ELSE "loop"
  /\ UNCHANGED <<grammar, edges, versionIdx, results>>
  /\ UNCHANGED <<ownHow, ownPc, live, pairsAt, loadedGraph, algoGraph, graphBefore,
                 mStartAt, resultAt, doubleFree>>
  /\ UNCHANGED nonOwnVars

\* a matrix operation on a freed handle ends the process
ReadOfFreedCrashes ==
  /\ ownPc = "constructed"
  /\ \/ pc = "start" /\ ReadsFreed(LabelsReadAtStart(grammar, algoGraph))
     \/ /\ pc = "loop"
        /\ EngineOf(algo) = "matrix_base_algo_fixed" \/ TotalNvals(delta) # 0
        /\ ReadsFreed(LabelsReadInPass(grammar, algoGraph, M, delta))
  /\ readFreed' = TRUE
  /\ pc' = "crashed"
  /\ ownPc' = "crashed"
  /\ UNCHANGED <<grammar, edges, versionIdx, M, delta, iterations, converged, warned,
                 prevM, results>>
  /\ UNCHANGED <<ownHow, live, pairsAt, loadedGraph, algoGraph, graphBefore, mStartAt,
                 resultAt, doubleFree>>
  /\ UNCHANGED nonOwnVars

\* the tail of solve: result is a duplicate of M[start] (or a new empty
\* matrix); M and delta go out of scope and free their matrices
OwnReturn ==
  /\ pc = "return"
  /\ ownPc = "constructed"
  /\ results' = [k \in (DOMAIN results) \cup {algo} |->
                   IF k = algo THEN SolveResult(M, grammar) ELSE results[k]]
  /\ IF has(M, grammar.start_nonterm_)
       THEN \E slot \in Candidates(live, pairsAt) :
              \E result \in Candidates(live \cup {slot},
                                       Place(pairsAt, slot, M[grammar.start_nonterm_])) :
                /\ mStartAt' = slot
                /\ resultAt' = result
                /\ pairsAt' = Place(Place(pairsAt, slot, M[grammar.start_nonterm_]),
                                    result, M[grammar.start_nonterm_])
                /\ live' = live \cup {result}
       ELSE \E empty \in Candidates(live, pairsAt) :
                /\ mStartAt' = 0
                /\ resultAt' = empty
                /\ pairsAt' = Place(pairsAt, empty, EmptyMatrix)
                /\ live' = live \cup {empty}
  /\ pc' = "done"
  /\ ownPc' = "solved"
  /\ UNCHANGED <<grammar, edges, versionIdx, M, delta, iterations, converged,
                 warned, prevM>>
  /\ UNCHANGED <<ownHow, loadedGraph, algoGraph, graphBefore, doubleFree, readFreed>>
  /\ UNCHANGED nonOwnVars

\* the engine goes out of scope: ~label_decomposed_graph frees every handle
\* of its member "graph"
DestroyEngine ==
  /\ ownPc = "solved"
  /\ doubleFree' = (doubleFree \/ \E h \in HandlesOf(algoGraph) : h \notin live)
  /\ live' = live \ HandlesOf(algoGraph)
  /\ algoGraph' = <<>>
  /\ ownPc' = "engine destroyed"
  /\ UNCHANGED <<ownHow, pairsAt, loadedGraph, graphBefore, mStartAt, resultAt, readFreed>>
  /\ UNCHANGED solveVars
  /\ UNCHANGED nonOwnVars

\* the graph the caller loaded goes out of scope
DestroyLoadedGraph ==
  /\ ownPc = "engine destroyed"
  /\ ownHow = "objects"
  /\ doubleFree' = (doubleFree \/ \E h \in HandlesOf(loadedGraph) : h \notin live)
  /\ live' = live \ HandlesOf(loadedGraph)
  /\ loadedGraph' = <<>>
  /\ ownPc' = "graph destroyed"
  /\ UNCHANGED <<ownHow, pairsAt, algoGraph, graphBefore, mStartAt, resultAt, readFreed>>
  /\ UNCHANGED solveVars
  /\ UNCHANGED nonOwnVars

NextOwn ==
  \/ LoadGraph
  \/ ConstructFromObjects
  \/ ConstructFromPaths
  \/ OwnStart
  \/ OwnConverged
  \/ OwnPass
  \/ ReadOfFreedCrashes
  \/ OwnReturn
  \/ DestroyEngine
  \/ DestroyLoadedGraph

SpecOwn == InitOwn /\ [][NextOwn]_vars

\* the handles some container holds: the two graphs and the caller's result
HeldHandles ==
  HandlesOf(loadedGraph) \cup HandlesOf(algoGraph)
    \cup (IF resultAt = 0 THEN {} ELSE {resultAt})

\* C22: from construction to teardown every handle a container holds is a
\* live matrix held by that container alone, no handle is freed twice and
\* none is read after it was freed.
SingleOwnership ==
  /\ ~doubleFree
  /\ ~readFreed
  /\ HeldHandles \subseteq live
  /\ HandlesOf(loadedGraph) \cap HandlesOf(algoGraph) = {}
  /\ resultAt \notin HandlesOf(loadedGraph) \cup HandlesOf(algoGraph)

\* The same, of an engine built from a grammar and a graph.
SingleOwnershipFromObjects == ownHow = "objects" => SingleOwnership

\* C21: when solve has returned, the graph of the engine has the labels it
\* had when solve was entered and every label leads to the pairs it led to
\* then.
GraphUnchangedBySolve ==
  ownPc = "solved" =>
    /\ DOMAIN algoGraph = DOMAIN graphBefore
    /\ \A l \in DOMAIN algoGraph : pairsAt[algoGraph[l]] = graphBefore[l]

\* The same, of an engine built from a grammar and a graph.
GraphUnchangedBySolveFromObjects == ownHow = "objects" => GraphUnchangedBySolve

\* C23: once the engine is destroyed (M and delta went with the return of
\* solve), the handle solve returned is still a live matrix and holds the
\* pairs M[start] held.
ResultOutlivesEngine ==
  ownPc \in {"engine destroyed", "graph destroyed"} =>
    /\ resultAt \in live
    /\ pairsAt[resultAt] = results[algo]
    /\ resultAt # mStartAt

\* The same, of an engine built from a grammar and a graph.
ResultOutlivesEngineFromObjects == ownHow = "objects" => ResultOutlivesEngine

====
